---- MODULE Spec2Model ----
(***************************************************************************)
(* Workflow execution engine of the assistant: the LangGraph state graph   *)
(* built by ModernGraphBuilder (start_workflow, execute_step,              *)
(* execute_tools, finalize_workflow), the reducers of WorkflowState, the   *)
(* per-user checkpoint thread it runs on, and plan validation.             *)
(***************************************************************************)
EXTENDS Integers, Sequences, FiniteSets, TLC

VARIABLES
    state,        \* channel values of the user's thread (WorkflowState), as checkpointed
    node,         \* next graph node to run: "idle" before the first request, "END" after a run
    supersteps,   \* node executions of the current graph run
    raised,       \* the current run was ended by the graph's recursion limit
    finalized,    \* finalize_workflow has run in the current graph run
    run,          \* number of requests streamed on this thread so far
    responses,    \* behaviour of the external tool of each step position in the current run
    plan_issues,  \* issues create_plan logged for the plan of the current run
    calls,        \* tool.invoke calls of the current run, in order
    recorded,     \* StepResults written in the current run, in order
    at_break,     \* what the thread held when the run was interrupted
    vplan,        \* plan handed to validate_workflow_plan
    vissues,      \* issues it returned
    validated,    \* validate_workflow_plan has returned
    input,        \* arguments a function of the engine is applied to
    output,       \* what it returned
    checkpointer, \* checkpointer of the StateManager: "sqlite" or "memory"
    cancelled,    \* users whose cancel_workflow has returned
    other         \* thread and graph run of a second user

vars == <<state, node, supersteps, raised, finalized, run, responses, plan_issues,
          calls, recorded, at_break, vplan, vissues, validated, input, output,
          checkpointer, cancelled, other>>

-----------------------------------------------------------------------------
(* Bounds of the model *)

MaxSteps == 3
MaxRuns == 2
MaxList == 2

\* the pieces a string parameter is put together from, at most
MaxSegments == 3

(* Node executions LangGraph allows one run before it raises                *)
(* GraphRecursionError: the default, as stream() is given no other.         *)
RecursionLimit == 25

-----------------------------------------------------------------------------
(* Python dict helpers: dicts are functions *)

EmptyDict == <<>>

\* {**a, **b}
Upd(a, b) == b @@ a

\* not d
IsEmpty(d) == DOMAIN d = {}

\* d.get(k, default)
Get(d, k, default) == IF k \in DOMAIN d THEN d[k] ELSE default

\* min(S)
Min(S) == CHOOSE x \in S : \A y \in S : x <= y

\* a dependency list in the order the loops visit it
RECURSIVE InOrder(_)
InOrder(S) == IF S = {} THEN <<>> ELSE <<Min(S)>> \o InOrder(S \ {Min(S)})

-----------------------------------------------------------------------------
(* Python values and strings, as template resolution handles them.          *)
(* A Python string is the sequence of its pieces: the braces "{{" and "}}"   *)
(* are one piece each, a name or a text without braces is spelled by Spell.  *)
(* A Python value carries its type: t is "str", "list", "dict", "bool" or    *)
(* "none", v is the pieces of a string or the elements of a list.            *)

Str(pieces) == [t |-> "str", v |-> pieces]

List(elements) == [t |-> "list", v |-> elements]

Dict(items) == [t |-> "dict", v |-> items]

Bool(b) == [t |-> "bool", v |-> <<ToString(b)>>]

None == [t |-> "none", v |-> <<>>]

\* str(value): a string is itself, any other value is one piece of text
str(value) == IF value.t = "str" THEN value.v ELSE <<ToString(value)>>

\* the names that have a suffix or are part of another name, piece by piece
Spelling ==
    [contact_list |-> <<"contact", "_list">>,
     attendee_emails |-> <<"attendee", "_emails">>,
     team_list |-> <<"team", "_list">>,
     discovered_contacts |-> <<"discovered_", "contact", "s">>,
     contact_groups |-> <<"contact", "_groups">>,
     contact_notes |-> <<"contact", "_notes">>]

Spell(name) == IF name \in DOMAIN Spelling THEN Spelling[name] ELSE <<name>>

\* "{{name}}"
Template(name) == <<"{{">> \o Spell(name) \o <<"}}">>

\* pattern in text
Contains(text, pattern) ==
    \E i \in 0..(Len(text) - Len(pattern)) : SubSeq(text, i + 1, i + Len(pattern)) = pattern

\* text.startswith(prefix)
StartsWith(text, prefix) ==
    Len(text) >= Len(prefix) /\ SubSeq(text, 1, Len(prefix)) = prefix

\* text.endswith(suffix)
EndsWith(text, suffix) ==
    /\ Len(text) >= Len(suffix)
    /\ SubSeq(text, Len(text) - Len(suffix) + 1, Len(text)) = suffix

\* text.replace(old, new), every occurrence from the left, old not empty
RECURSIVE Replace(_, _, _)
Replace(text, old, new) ==
    IF Len(text) < Len(old) THEN text
    ELSE IF StartsWith(text, old)
      THEN new \o Replace(SubSeq(text, Len(old) + 1, Len(text)), old, new)
    ELSE <<Head(text)>> \o Replace(Tail(text), old, new)

\* the number of pieces at the head of text that are not "}}"
RECURSIVE RunWithoutClose(_)
RunWithoutClose(text) ==
    IF text = <<>> \/ Head(text) = "}}" THEN 0 ELSE 1 + RunWithoutClose(Tail(text))

\* re.findall(r'\{\{([^}]+)\}\}', text): the names between "{{" and the next
\* "}}", from the left, without overlap
RECURSIVE FindAll(_)
FindAll(text) ==
    IF text = <<>> THEN <<>>
    ELSE IF Head(text) = "{{"
      THEN LET rest == Tail(text)
               length == RunWithoutClose(rest)
           IN IF length >= 1 /\ length < Len(rest)
              THEN <<SubSeq(rest, 1, length)>>
                       \o FindAll(SubSeq(rest, length + 2, Len(rest)))
              ELSE FindAll(rest)
    ELSE FindAll(Tail(text))

-----------------------------------------------------------------------------
(* plan_schema.py *)

\* the parameters the planner writes for a step that uses what earlier steps
\* found
StepParameters ==
    [to |-> Str(Template("contact_list")),
     body |-> Str(<<"Join: ">> \o Template("meeting_link")),
     user_id |-> Str(Template("user_id"))]

ExecutionStep(i, deps) ==
    [step_index |-> i, action |-> "read_emails", parameters |-> StepParameters,
     dependencies |-> deps]

StepResult(i, st, extracted_data, err) ==
    [step_index |-> i, status |-> st, extracted_data |-> extracted_data,
     error_message |-> err]

merge_step_results(existing, new) == Upd(existing, new)

\* The keys of shared_context the engine writes, by the type of their values
IsListKey(key) ==
    key \in {"discovered_contacts", "file_references", "discovered_emails", "contact_list"}
IsDictKey(key) == key \in {"current_execution", "meeting_details"}

\* list(set(xs)): the elements of xs, each once.  Python leaves their order
\* open; they are kept in the order of their first occurrence, and the
\* properties below compare lists built this way by their elements.
RECURSIVE Dedupe(_)
Dedupe(xs) ==
    IF xs = <<>> THEN <<>>
    ELSE LET front == Dedupe(SubSeq(xs, 1, Len(xs) - 1))
             last == xs[Len(xs)]
         IN IF \E i \in DOMAIN front : front[i] = last THEN front
            ELSE Append(front, last)

\* merged.update(new): every key of new replaces the existing value
merge_context_update(existing, new) == Upd(existing, new)

merge_context(existing, new) ==
    [key \in DOMAIN existing \cup DOMAIN new |->
        IF key \notin DOMAIN new THEN existing[key]
        ELSE IF key \in DOMAIN existing /\ IsListKey(key)
          THEN Dedupe(existing[key] \o new[key])
        ELSE IF key \in DOMAIN existing /\ IsDictKey(key)
          THEN Upd(existing[key], new[key])
        ELSE new[key]]

\* a reducer that keeps the log as it is when it already ends with new
append_progress_once(existing, new) ==
    IF /\ Len(existing) >= Len(new)
       /\ SubSeq(existing, Len(existing) - Len(new) + 1, Len(existing)) = new
    THEN existing
    ELSE existing \o new

append_progress(existing, new) == existing \o new

\* The channels the nodes and the router read; progress_messages, error_count,
\* retry_count and created_at are written only, and a thread that does not
\* carry them drops their updates (ApplyUpdate).
create_initial_state(plan) ==
    [plan |-> plan,
     user_id |-> "user",
     step_results |-> EmptyDict,
     shared_context |-> [user_id |-> "user",
                         discovered_contacts |-> <<>>,
                         meeting_details |-> EmptyDict,
                         file_references |-> <<>>],
     current_step |-> 1,
     status |-> "executing"]

update_step_completion(step_result, extracted_data) ==
    LET update ==
            [step_results |-> (step_result.step_index :> step_result),
             current_step |-> step_result.step_index + 1,
             progress_messages |->
                <<[line |-> "completed", step |-> step_result.step_index]>>]
        context_updates ==
            Upd(Get(extracted_data, "for_future_steps", EmptyDict),
                Get(extracted_data, "context_updates", EmptyDict))
    IN
    IF step_result.status = "completed"
    THEN IF IsEmpty(context_updates) THEN update
         ELSE Upd(update, [shared_context |-> context_updates])
    ELSE IF step_result.status = "failed"
    THEN Upd(update,
             [error_count |-> 1,
              progress_messages |->
                <<[line |-> "failed", step |-> step_result.step_index]>>])
    ELSE update

update_workflow_status(status, message) ==
    [status |-> status, progress_messages |-> <<[line |-> message, step |-> 0]>>]

\* The reducers LangGraph applies to a node's update, channel by channel
ApplyUpdate(st, update) ==
    [f \in DOMAIN st |->
        IF f \notin DOMAIN update THEN st[f]
        ELSE CASE f = "step_results" -> merge_step_results(st[f], update[f])
               [] f = "shared_context" -> merge_context(st[f], update[f])
               [] f = "progress_messages" -> append_progress(st[f], update[f])
               [] f \in {"error_count", "retry_count"} -> st[f] + update[f]
               [] OTHER -> update[f]]

-----------------------------------------------------------------------------
(* graph_builder.py: template resolution *)

\* ModernGraphBuilder._lookup_variable with the step results searched before
\* the shared context
_lookup_variable_results_first(var_name, st) ==
    LET sc == st.shared_context
        holders == {i \in DOMAIN st.step_results :
                       \E k \in DOMAIN st.step_results[i].extracted_data :
                          Spell(k) = var_name}
    IN
    IF holders # {}
    THEN LET data == st.step_results[Min(holders)].extracted_data
         IN data[CHOOSE k \in DOMAIN data : Spell(k) = var_name]
    ELSE IF \E k \in DOMAIN sc : Spell(k) = var_name
    THEN sc[CHOOSE k \in DOMAIN sc : Spell(k) = var_name]
    ELSE None

\* ModernGraphBuilder._lookup_variable. state["step_results"].values() goes in
\* the order the results were inserted, which is the order of the step
\* indexes: the cursor starts at 1 and a step gets its first result before the
\* cursor passes it. state["shared_context"].items() goes in the order of
\* st.context_keys.
_lookup_variable(var_name, st) ==
    LET sc == st.shared_context
        holders == {i \in DOMAIN st.step_results :
                       \E k \in DOMAIN st.step_results[i].extracted_data :
                          Spell(k) = var_name}
        base_name == Replace(Replace(var_name, <<"_list">>, <<>>), <<"_emails">>, <<>>)
        lists == {p \in DOMAIN st.context_keys :
                     /\ Contains(Spell(st.context_keys[p]), base_name)
                     /\ sc[st.context_keys[p]].t = "list"}
    IN
    IF \E k \in DOMAIN sc : Spell(k) = var_name
    THEN sc[CHOOSE k \in DOMAIN sc : Spell(k) = var_name]
    ELSE IF holders # {}
    THEN LET data == st.step_results[Min(holders)].extracted_data
         IN data[CHOOSE k \in DOMAIN data : Spell(k) = var_name]
    ELSE IF /\ EndsWith(var_name, <<"_list">>) \/ EndsWith(var_name, <<"_emails">>)
            /\ lists # {}
    THEN sc[st.context_keys[Min(lists)]]
    ELSE None

\* the loop of _resolve_partial_templates over the matches
RECURSIVE ReplaceMatches(_, _, _)
ReplaceMatches(resolved_text, matches, st) ==
    IF matches = <<>> THEN resolved_text
    ELSE LET var_name == Head(matches)
             var_value == _lookup_variable(var_name, st)
         IN ReplaceMatches(
                IF var_value # None
                THEN Replace(resolved_text, <<"{{">> \o var_name \o <<"}}">>, str(var_value))
                ELSE resolved_text,
                Tail(matches), st)

\* ModernGraphBuilder._resolve_partial_templates
_resolve_partial_templates(text, st) == ReplaceMatches(text, FindAll(text), st)

\* the partial resolution of a string value
ResolvePartial(value, st) ==
    Str(_resolve_partial_templates(
            Replace(value.v, Template("user_id"), <<st.user_id>>), st))

\* a parameter value resolved as a text whatever its form
ResolveValueAsText(value, st) ==
    IF value.t = "str" /\ Contains(value.v, <<"{{">>) /\ Contains(value.v, <<"}}">>)
    THEN ResolvePartial(value, st)
    ELSE value

\* _resolve_template_variables: the body of the loop over the parameters
ResolveValue(value, st) ==
    IF value.t = "str" /\ Contains(value.v, <<"{{">>) /\ Contains(value.v, <<"}}">>)
    THEN IF value.v = Template("user_id") THEN Str(<<st.user_id>>)
         ELSE IF StartsWith(value.v, <<"{{">>) /\ EndsWith(value.v, <<"}}">>)
         THEN LET var_name == SubSeq(value.v, 2, Len(value.v) - 1)
                  resolved_value == _lookup_variable(var_name, st)
              IN IF resolved_value # None THEN resolved_value ELSE value
         ELSE ResolvePartial(value, st)
    ELSE value

\* _add_smart_defaults with the defaults written over the parameters
_add_smart_defaults_over(params, st) ==
    LET email == IF "to" \in DOMAIN params
                 THEN [subject |-> Str(<<"Meeting Update">>),
                       body |-> Str(<<"Please see the details below.">>)]
                 ELSE EmptyDict
        zone == IF "title" \in DOMAIN params THEN [timezone |-> Str(<<"UTC">>)] ELSE EmptyDict
        meet == IF "attendees" \in DOMAIN params
                THEN [include_meet |-> Bool(TRUE)] ELSE EmptyDict
    IN Upd(params, email @@ zone @@ meet)

\* ModernGraphBuilder._add_smart_defaults
_add_smart_defaults(params, st) ==
    LET subject == IF "to" \in DOMAIN params /\ "subject" \notin DOMAIN params
                   THEN [subject |-> Str(<<"Meeting Update">>)] ELSE EmptyDict
        body == IF "to" \in DOMAIN params /\ "body" \notin DOMAIN params
                THEN [body |-> Str(<<"Please see the details below.">>)] ELSE EmptyDict
        timezone == IF "title" \in DOMAIN params /\ "timezone" \notin DOMAIN params
                    THEN [timezone |-> Str(<<"UTC">>)] ELSE EmptyDict
        include_meet == IF "include_meet" \notin DOMAIN params /\ "attendees" \in DOMAIN params
                        THEN [include_meet |-> Bool(TRUE)] ELSE EmptyDict
    IN Upd(params, subject @@ body @@ timezone @@ include_meet)

\* ModernGraphBuilder._resolve_template_variables
_resolve_template_variables(parameters, st) ==
    LET values == [key \in DOMAIN parameters |-> ResolveValue(parameters[key], st)]
        resolved == IF "user_id" \notin DOMAIN values
                    THEN Upd(values, [user_id |-> Str(<<st.user_id>>)])
                    ELSE values
    IN _add_smart_defaults(resolved, st)

-----------------------------------------------------------------------------
(* graph_builder.py: the nodes *)

\* ModernGraphBuilder.tools_by_name: the tools the registry creates
tools_by_name ==
    {"send_email_tool", "search_emails_tool", "read_recent_emails_tool",
     "get_email_threads_tool", "create_calendar_event_tool",
     "list_calendar_events_tool", "update_calendar_event_tool",
     "delete_calendar_event_tool", "get_calendar_event_tool",
     "upload_file_to_drive_tool", "search_files_in_drive_tool",
     "share_drive_file_tool", "download_drive_file_tool",
     "list_recent_drive_files_tool", "get_drive_file_info_tool"}

_map_action_to_tool_name(action) ==
    CASE action = "send_email" -> "send_email_tool"
      [] action = "search_emails" -> "search_emails_tool"
      [] action = "read_emails" -> "read_recent_emails_tool"
      [] action = "get_threads" -> "get_email_threads_tool"
      [] action = "create_event" -> "create_calendar_event_tool"
      [] action = "list_events" -> "list_calendar_events_tool"
      [] action = "update_event" -> "update_calendar_event_tool"
      [] action = "delete_event" -> "delete_calendar_event_tool"
      [] action = "get_event" -> "get_calendar_event_tool"
      [] action = "upload_file" -> "upload_file_to_drive_tool"
      [] action = "search_files" -> "search_files_in_drive_tool"
      [] action = "share_file" -> "share_drive_file_tool"
      [] action = "download_file" -> "download_drive_file_tool"
      [] action = "list_files" -> "list_recent_drive_files_tool"
      [] OTHER -> "read_recent_emails_tool"

start_workflow(st) == update_workflow_status("executing", "starting_workflow")

\* execute_step without the dependency check
dependencies_unchecked(st, step) == TRUE

\* an entry of missing_deps: dep_step itself when it has no result,
\* f"step_{dep_step}_failed" when its result is not a completed one
MissingEntry(dep_step, failed) == [dep_step |-> dep_step, failed |-> failed]

\* the loop that leaves out the dependencies whose result is a failed one
RECURSIVE missing_deps_absent_only(_, _)
missing_deps_absent_only(st, deps) ==
    IF deps = <<>> THEN <<>>
    ELSE (IF Head(deps) \notin DOMAIN st.step_results
          THEN <<MissingEntry(Head(deps), FALSE)>> ELSE <<>>)
         \o missing_deps_absent_only(st, Tail(deps))

\* for dep_step in step.dependencies: missing_deps.append(...)
RECURSIVE missing_deps(_, _)
missing_deps(st, deps) ==
    IF deps = <<>> THEN <<>>
    ELSE LET dep_step == Head(deps) IN
         (IF dep_step \notin DOMAIN st.step_results
          THEN <<MissingEntry(dep_step, FALSE)>>
          ELSE IF st.step_results[dep_step].status # "completed"
          THEN <<MissingEntry(dep_step, TRUE)>>
          ELSE <<>>)
         \o missing_deps(st, Tail(deps))

\* {"satisfied": ..., "missing": ...}
check_step_dependencies_result(st, step) ==
    LET missing == missing_deps(st, InOrder(step.dependencies)) IN
    [satisfied |-> missing = <<>>, missing |-> missing]

\* the "satisfied" of the result
_check_step_dependencies(st, step) == check_step_dependencies_result(st, step).satisfied

\* the value of a key of shared_context or of extracted_data as the Python
\* value it is
PyValue(key, value) ==
    IF IsListKey(key) THEN List(value)
    ELSE IF IsDictKey(key) THEN Dict(<<ToString(value)>>)
    ELSE Str(<<value>>)

\* the keys of shared_context in the order of their insertion: the keys of
\* create_initial_state, current_execution of the first execute_step, then the
\* keys of the tool results (the lists among them in this order)
ContextKeyOrder ==
    <<"user_id", "discovered_contacts", "meeting_details", "file_references",
      "current_execution", "discovered_emails", "contact_list", "meeting_link",
      "meet_link", "event_id">>

\* the state as template resolution reads it
ResolverView(st) ==
    LET Present(key) == key \in DOMAIN st.shared_context IN
    [user_id |-> st.user_id,
     shared_context |-> [key \in DOMAIN st.shared_context |->
                            PyValue(key, st.shared_context[key])],
     context_keys |-> SelectSeq(ContextKeyOrder, Present),
     step_results |-> [i \in DOMAIN st.step_results |->
                          [step_index |-> i,
                           status |-> st.step_results[i].status,
                           extracted_data |->
                              [key \in DOMAIN st.step_results[i].extracted_data |->
                                  PyValue(key, st.step_results[i].extracted_data[key])]]]]

\* None is modelled as the empty dict
_prepare_tool_execution(st, step, current_step) ==
    LET resolved_params == _resolve_template_variables(step.parameters, ResolverView(st))
        tool_name == _map_action_to_tool_name(step.action)
    IN
    IF tool_name \notin tools_by_name THEN EmptyDict
    ELSE [tool_name |-> tool_name, resolved_params |-> resolved_params,
          step_index |-> current_step]

\* the addresses email_pattern finds in str(result)
EmailsIn(result) ==
    CASE result = "emails_a" -> <<"a@x.com">>
      [] result = "emails_ab" -> <<"a@x.com", "b@x.com">>
      [] result = "emails_b_link_b" -> <<"b@x.com">>
      [] result = "emails_b_unmergeable" -> <<"b@x.com">>
      [] OTHER -> <<>>

\* the links meet_pattern finds in str(result)
MeetLinksIn(result) ==
    CASE result = "event_e1_link_a" -> <<"link_a">>
      [] result = "emails_b_link_b" -> <<"link_b">>
      [] OTHER -> <<>>

\* the ids event_id_pattern finds in str(result)
EventIdsIn(result) ==
    CASE result = "event_e1_link_a" -> <<"e1">>
      [] OTHER -> <<>>

\* _extract_step_data; the file ids of Drive results are found as the event
\* ids are and are left out
ExtractedFrom(result) ==
    LET emails == EmailsIn(result)
        meet_links == MeetLinksIn(result)
        event_ids == EventIdsIn(result)
    IN [tool_output |-> result]
         @@ (IF emails # <<>>
             THEN [discovered_emails |-> emails, contact_list |-> emails] ELSE EmptyDict)
         @@ (IF meet_links # <<>>
             THEN [meeting_link |-> meet_links[1], meet_link |-> meet_links[1]]
             ELSE EmptyDict)
         @@ (IF event_ids # <<>> THEN [event_id |-> event_ids[1]] ELSE EmptyDict)

\* the results on which the extraction raises once tool_output is kept, and
\* those on which the update of the contacts raises
ExtractionRaises(result) == result = "emails_a_unextractable"

UpdateRaises(result) == result = "emails_b_unmergeable"

\* an exception that leaves the function
Raised == [raised |-> TRUE]

\* _extract_step_data without its try
_extract_step_data_uncaught(result) ==
    IF ExtractionRaises(result) THEN Raised ELSE ExtractedFrom(result)

\* except Exception: what was extracted before is returned
_extract_step_data(result) ==
    IF ExtractionRaises(result) THEN [tool_output |-> result] ELSE ExtractedFrom(result)

\* _update_shared_context that finds nothing to hand on
_update_shared_context_none(result, st) == EmptyDict

_update_shared_context(result, st) ==
    LET extracted_data == _extract_step_data(result)
        context_updates == [key \in DOMAIN extracted_data \ {"tool_output"} |->
                               extracted_data[key]]
        contacts ==
            IF "discovered_emails" \in DOMAIN extracted_data
            THEN [discovered_contacts |->
                    Dedupe(Get(st.shared_context, "discovered_contacts", <<>>)
                              \o extracted_data["discovered_emails"])]
            ELSE EmptyDict
        meeting ==
            IF "meeting_link" \in DOMAIN extracted_data
            THEN [meeting_details |->
                    Upd(Get(st.shared_context, "meeting_details", EmptyDict),
                        [meet_link |-> extracted_data["meeting_link"]])]
            ELSE EmptyDict
    IN IF UpdateRaises(result) THEN context_updates
       ELSE Upd(Upd(context_updates, contacts), meeting)

\* _create_failed_step_result that leaves error_message unset
_create_failed_step_result_unset(current_step, error) ==
    Upd(update_step_completion(StepResult(current_step, "failed", EmptyDict, "none"),
                               EmptyDict),
        [current_step |-> current_step + 1,
         progress_messages |-> <<[line |-> "failed", step |-> current_step]>>])

_create_failed_step_result(current_step, error) ==
    Upd(update_step_completion(StepResult(current_step, "failed", EmptyDict, error),
                               EmptyDict),
        [current_step |-> current_step + 1,
         progress_messages |-> <<[line |-> "failed", step |-> current_step]>>])

_process_tool_results(st, current_step) ==
    [current_step |-> current_step + 1,
     shared_context |-> Upd(st.shared_context, [current_execution |-> EmptyDict]),
     progress_messages |-> <<[line |-> "completed_successfully", step |-> current_step]>>]

\* execute_step without the check for a completed result
step_never_completed(st, current_step) == FALSE

\* "Check if this step is already completed"
existing_result_completed(st, current_step) ==
    /\ current_step \in DOMAIN st.step_results
    /\ st.step_results[current_step].status = "completed"

execute_step(st) ==
    LET current_step == st.current_step
        total_steps == Len(st.plan.steps)
        current_execution == Get(st.shared_context, "current_execution", EmptyDict)
    IN
    IF current_step > total_steps
      THEN update_workflow_status("completed", "all_steps_completed")
    ELSE
    LET step == st.plan.steps[current_step]
        tool_context == _prepare_tool_execution(st, step, current_step)
    IN
    IF existing_result_completed(st, current_step)
      THEN [current_step |-> current_step + 1]
    ELSE IF /\ "step_index" \in DOMAIN current_execution
            /\ current_execution["step_index"] = current_step
            /\ Get(current_execution, "tool_executed", FALSE)
      THEN _process_tool_results(st, current_step)
    ELSE IF ~ _check_step_dependencies(st, step)
      THEN _create_failed_step_result(current_step, "dependencies_not_satisfied")
    ELSE IF IsEmpty(tool_context)
      THEN _create_failed_step_result(current_step, "failed_to_prepare")
    ELSE [shared_context |->
            Upd(st.shared_context,
                [current_execution |->
                    [step_index |-> current_step,
                     step |-> step,
                     tool_context |-> tool_context,
                     needs_tool_execution |-> TRUE,
                     tool_executed |-> FALSE]]),
          progress_messages |-> <<[line |-> "executing", step |-> current_step]>>]

\* The tool.invoke call execute_tools makes in state st, if it makes one
ToolCallOf(st) ==
    LET current_execution == Get(st.shared_context, "current_execution", EmptyDict) IN
    IF /\ "step" \in DOMAIN current_execution
       /\ ~IsEmpty(Get(current_execution, "tool_context", EmptyDict))
       /\ current_execution["tool_context"].tool_name \in tools_by_name
    THEN <<[step_index |-> current_execution["step_index"],
            step |-> current_execution["step"]]>>
    ELSE <<>>

\* outcome: "raise" when tool.invoke raises, else the result it returns
execute_tools_directly(st, outcome) ==
    LET current_execution == Get(st.shared_context, "current_execution", EmptyDict)
        step_index == Get(current_execution, "step_index", 0)
        tool_context == Get(current_execution, "tool_context", EmptyDict)
    IN
    IF "step" \notin DOMAIN current_execution \/ IsEmpty(tool_context)
      THEN _create_failed_step_result(step_index, "no_step_or_tool_context")
    ELSE IF tool_context.tool_name \notin tools_by_name
      THEN _create_failed_step_result(step_index, "tool_not_found")
    ELSE IF outcome = "raise"
      THEN _create_failed_step_result(step_index, "tool_exception")
    ELSE IF _extract_step_data(outcome) = Raised
      THEN _create_failed_step_result(step_index, "extraction_exception")
    ELSE LET step_result == StepResult(step_index, "completed",
                                       _extract_step_data(outcome), "none")
             context_updates == _update_shared_context(outcome, st)
         IN Upd(update_step_completion(step_result, EmptyDict),
                [shared_context |->
                   Upd(Upd(st.shared_context, context_updates),
                       [current_execution |->
                           Upd(current_execution,
                               [tool_executed |-> TRUE, completed |-> TRUE,
                                result |-> outcome])])])

CompletedSteps(st) ==
    {i \in DOMAIN st.step_results : st.step_results[i].status = "completed"}

FailedSteps(st) ==
    {i \in DOMAIN st.step_results : st.step_results[i].status = "failed"}

finalize_workflow(st) ==
    [status |-> IF Cardinality(FailedSteps(st)) = 0
                THEN "completed" ELSE "partial_completion",
     progress_messages |-> <<[line |-> "workflow_completed", step |-> 0]>>]

_route_from_step_executor(st) ==
    LET current_step == st.current_step
        total_steps == Len(st.plan.steps)
        current_execution == Get(st.shared_context, "current_execution", EmptyDict)
        needs_tool_execution == Get(current_execution, "needs_tool_execution", FALSE)
        tool_executed == Get(current_execution, "tool_executed", FALSE)
    IN
    IF st.status = "failed" THEN "error"
    ELSE IF current_step > total_steps THEN "finalize"
    ELSE IF needs_tool_execution /\ ~tool_executed THEN "execute_tools"
    ELSE IF current_step \in DOMAIN st.step_results
            /\ st.step_results[current_step].status \in {"completed", "failed"}
      THEN "next_step"
    ELSE IF tool_executed THEN "next_step"
    ELSE "next_step"

\* The conditional edges of build_workflow_graph
EdgeTarget(route) ==
    CASE route = "execute_tools" -> "execute_tools"
      [] route = "next_step" -> "execute_step"
      [] route = "finalize" -> "finalize_workflow"
      [] OTHER -> "END"

-----------------------------------------------------------------------------
(* state_manager.py and agent_orchestrator.py: what the user is told *)

\* channel values of a thread no checkpoint was written for
ChannelDefaults ==
    [plan |-> [steps |-> <<>>],
     user_id |-> "none",
     step_results |-> EmptyDict,
     shared_context |-> EmptyDict,
     current_step |-> 0,
     status |-> "none"]

\* StateManager.get_thread_state: the channel values of the thread, None while
\* no checkpoint was written for it
StoreError == [raised |-> "checkpointer.get"]

\* it answers None as well when checkpointer.get raises: st is then StoreError
get_thread_state(st) == IF st = StoreError \/ st = ChannelDefaults THEN None ELSE st

\* plan_schema.py, get_progress_summary
get_progress_summary(st) ==
    [status |-> st.status,
     current_step |-> st.current_step,
     total_steps |-> Len(st.plan.steps),
     completed_steps |-> Cardinality({i \in DOMAIN st.step_results :
                                        st.step_results[i].status = "completed"}),
     failed_steps |-> Cardinality({i \in DOMAIN st.step_results :
                                     st.step_results[i].status = "failed"})]

\* StateManager.get_workflow_progress
get_workflow_progress(st) ==
    IF get_thread_state(st) = None
    THEN [status |-> "no_workflow", progress_percent |-> 0]
    ELSE get_progress_summary(st)

\* StateManager.is_workflow_active
is_workflow_active(st) ==
    /\ get_thread_state(st) /= None
    /\ st.status \in {"executing", "planning", "interrupted"}

\* StateManager.get_final_results: an error record unless the thread holds a
\* workflow whose status is completed or failed; plan.steps[step_index - 1]
\* raises IndexError for a result whose index is beyond the plan
get_final_results(st) ==
    IF get_thread_state(st) = None THEN [error |-> "No workflow found"]
    ELSE IF st.status \notin {"completed", "failed"}
    THEN [error |-> "Workflow not completed", status |-> st.status]
    ELSE IF \E i \in DOMAIN st.step_results : i > Len(st.plan.steps)
    THEN [error |-> "list index out of range", status |-> "error"]
    ELSE [status |-> st.status,
          completed_steps |-> Cardinality(CompletedSteps(st)),
          failed_steps |-> Cardinality(FailedSteps(st)),
          total_steps |-> Len(st.plan.steps),
          step_summaries |->
              [i \in DOMAIN st.step_results |->
                  IF st.step_results[i].status = "failed"
                  THEN [step |-> i, status |-> "failed",
                        error |-> st.step_results[i].error_message]
                  ELSE [step |-> i, status |-> st.step_results[i].status]]]

\* _generate_claude_style_summary: the lines of the summary that report the
\* outcome; an error record gives the one line of apology
_generate_claude_style_summary(final_results) ==
    IF "error" \in DOMAIN final_results THEN [kind |-> "issue"]
    ELSE [kind |-> "summary",
          steps_completed |-> final_results.completed_steps,
          total_steps |-> final_results.total_steps,
          issues_encountered |-> final_results.failed_steps,
          issues |-> {<<i, final_results.step_summaries[i].error>> :
                        i \in {j \in DOMAIN final_results.step_summaries :
                                 final_results.step_summaries[j].status = "failed"}}]

-----------------------------------------------------------------------------
(* Plans the planner can hand over, and the behaviour of the external tools *)

\* dependency lists a step at position i is given: none, the previous index
\* (0 for the first step: no such step), or the next index
DepChoices(i) == {{}, {i - 1}, {i + 1}}

PlansOfLength(n) ==
    {[steps |-> [i \in 1..n |-> ExecutionStep(i, d[i])]] :
        d \in {dd \in [1..n -> UNION {DepChoices(i) : i \in 1..n}] :
                  \A i \in 1..n : dd[i] \in DepChoices(i)}}

Plans == UNION {PlansOfLength(n) : n \in 0..MaxSteps}

\* each tool.invoke either returns or raises, call by call
AnyResponse == [i \in 1..MaxSteps |-> "any"]

\* or the tool of a step position answers every call the same way
FixedResponses == [1..MaxSteps -> {"ok", "raise"}]

Outcomes(resp, step_index) ==
    IF step_index \in DOMAIN resp /\ resp[step_index] # "any"
    THEN {resp[step_index]}
    ELSE {"ok", "raise"}

-----------------------------------------------------------------------------
(* llm_planner.py: the validation create_plan runs on the plan it returns *)

_validate_plan(plan) ==
    LET n == Len(plan.steps)
        actual_indices == {plan.steps[i].step_index : i \in 1..n}
    IN
    IF n = 0 THEN {"no_steps"}
    ELSE (IF actual_indices # 1..n THEN {"indices_mismatch"} ELSE {})
      \cup (IF \E i \in 1..n : \E dep \in plan.steps[i].dependencies :
                    dep >= plan.steps[i].step_index
            THEN {"future_step"} ELSE {})
      \cup (IF \E i \in 1..n : \E dep \in plan.steps[i].dependencies :
                    dep \notin actual_indices
            THEN {"non_existent_step"} ELSE {})

-----------------------------------------------------------------------------
(* graph_builder.py: validate_workflow_plan *)

\* next((s for s in plan.steps if s.step_index == idx), None)
StepWithIndex(plan, idx) ==
    LET at == {i \in 1..Len(plan.steps) : plan.steps[i].step_index = idx} IN
    IF at = {} THEN EmptyDict ELSE plan.steps[Min(at)]

\* check_circular shares `visited` between its calls and hands every callee a
\* copy of `path`: the result carries the answer and the visited set
RECURSIVE check_circular(_, _, _, _)
RECURSIVE check_dependencies(_, _, _, _)

\* the walk cut down to the step's own dependency list
check_circular_direct(plan, current_step_idx, path, visited) ==
    [found |-> LET current_step == StepWithIndex(plan, current_step_idx) IN
               ~IsEmpty(current_step) /\ current_step_idx \in current_step.dependencies,
     visited |-> visited]

\* the walk that takes a step it has visited before for a step on its path
check_circular_revisit(plan, current_step_idx, path, visited) ==
    IF current_step_idx \in path \/ current_step_idx \in visited
    THEN [found |-> TRUE, visited |-> visited]
    ELSE LET current_step == StepWithIndex(plan, current_step_idx) IN
         IF IsEmpty(current_step)
         THEN [found |-> FALSE, visited |-> visited \cup {current_step_idx}]
         ELSE check_dependencies(plan, InOrder(current_step.dependencies),
                                 path \cup {current_step_idx},
                                 visited \cup {current_step_idx})

check_circular(plan, current_step_idx, path, visited) ==
    IF current_step_idx \in path THEN [found |-> TRUE, visited |-> visited]
    ELSE IF current_step_idx \in visited THEN [found |-> FALSE, visited |-> visited]
    ELSE LET current_step == StepWithIndex(plan, current_step_idx) IN
         IF IsEmpty(current_step)
         THEN [found |-> FALSE, visited |-> visited \cup {current_step_idx}]
         ELSE check_dependencies(plan, InOrder(current_step.dependencies),
                                 path \cup {current_step_idx},
                                 visited \cup {current_step_idx})

\* for dep in current_step.dependencies: if check_circular(dep, path.copy()): return True
check_dependencies(plan, deps, path, visited) ==
    IF deps = <<>> THEN [found |-> FALSE, visited |-> visited]
    ELSE LET r == check_circular(plan, Head(deps), path, visited) IN
         IF r.found THEN r
         ELSE check_dependencies(plan, Tail(deps), path, r.visited)

Issue(kind, step, dep) == [kind |-> kind, step |-> step, dep |-> dep]

\* the issues list, as the set of its entries
validate_workflow_plan(plan) ==
    LET n == Len(plan.steps)
        expected_indices == 1..n
        actual_indices == {plan.steps[i].step_index : i \in 1..n}
    IN
    IF n = 0 THEN {Issue("no_steps", 0, 0)}
    ELSE (IF expected_indices # actual_indices
          THEN {Issue("indices_mismatch", 0, 0)} ELSE {})
      \cup {Issue("future_step", plan.steps[i].step_index, dep) :
                <<i, dep>> \in {x \in (1..n) \X (0..MaxSteps + 1) :
                    /\ x[2] \in plan.steps[x[1]].dependencies
                    /\ x[2] >= plan.steps[x[1]].step_index}}
      \cup {Issue("non_existent_step", plan.steps[i].step_index, dep) :
                <<i, dep>> \in {x \in (1..n) \X (0..MaxSteps + 1) :
                    /\ x[2] \in plan.steps[x[1]].dependencies
                    /\ x[2] \notin actual_indices}}
      \cup {Issue("depends_on_itself", plan.steps[i].step_index, 0) :
                i \in {j \in 1..n : plan.steps[j].step_index \in plan.steps[j].dependencies}}
      \cup {Issue("circular", plan.steps[i].step_index, 0) :
                i \in {j \in 1..n :
                    check_circular(plan, plan.steps[j].step_index, {}, {}).found}}

\* plans handed to the validator: n steps with indices 1..n or 2..n+1, up to
\* two dependencies a step, on any index up to n + 1
VDeps(n) == {d \in SUBSET (1..n + 1) : Cardinality(d) <= 2}

VPlan(n, off, d) == [steps |-> [i \in 1..n |-> ExecutionStep(i + off, d[i])]]

-----------------------------------------------------------------------------
(* The thread of the user and the graph run on it *)

NoBreak == [resumed |-> FALSE, completed |-> {}]

\* no function is being applied on its own
NoInput == [fn |-> "none"]
NoOutput == [done |-> FALSE]

\* no second user has made a request
NoOther ==
    [state |-> ChannelDefaults, node |-> "idle", supersteps |-> 0,
     responses |-> AnyResponse]

Init ==
    /\ state = ChannelDefaults
    /\ node = "idle"
    /\ supersteps = 0
    /\ raised = FALSE
    /\ finalized = FALSE
    /\ run = 0
    /\ responses = AnyResponse
    /\ plan_issues = {}
    /\ calls = <<>>
    /\ recorded = <<>>
    /\ at_break = NoBreak
    /\ vplan = [steps |-> <<>>]
    /\ vissues = {}
    /\ validated = FALSE
    /\ input = NoInput
    /\ output = NoOutput
    /\ checkpointer = "sqlite"
    /\ cancelled = {}
    /\ other = NoOther

\* compiled_graph.stream(initial_state, config): the input is written onto the
\* channels of the thread through their reducers, and the graph starts at START
\* agent_orchestrator.py: what _execute_streaming_workflow yields for a chunk
\* of stream_mode "updates".  A line is [line, step], as in progress_messages.

\* "Step {current_step}: Starting execution...", else the last progress message
_format_step_progress(step_data, last_completed_step) ==
    IF "current_step" \in DOMAIN step_data /\ step_data.current_step > last_completed_step
    THEN [line |-> "starting_execution", step |-> step_data.current_step]
    ELSE IF Get(step_data, "progress_messages", <<>>) # <<>>
    THEN step_data.progress_messages[Len(step_data.progress_messages)]
    ELSE None

\* "messages" in str(tool_data): the keys messages and progress_messages do
_format_tool_progress(tool_data) ==
    IF DOMAIN tool_data \cap {"messages", "progress_messages"} # {}
    THEN [line |-> "executing_tools", step |-> 0]
    ELSE None

_parse_streaming_chunk(node_name, node_data, last_completed_step) ==
    IF node_name = "execute_step"
    THEN _format_step_progress(node_data, last_completed_step)
    ELSE IF node_name = "execute_tools"
    THEN _format_tool_progress(node_data)
    ELSE IF Get(node_data, "progress_messages", <<>>) # <<>>
    THEN node_data.progress_messages[Len(node_data.progress_messages)]
    ELSE None

\* the generator is being read: its lines so far and its last_completed_step
Listening(out) == "stream" \in DOMAIN out

\* "Step" in progress_update and "completed" in progress_update
NamesCompletedStep(progress_update) ==
    progress_update.line \in {"completed", "completed_successfully"}

\* one pass of `for chunk in compiled_graph.stream(...)`
Chunk(out, node_name, node_data) ==
    IF ~Listening(out) THEN out
    ELSE LET progress_update ==
                 _parse_streaming_chunk(node_name, node_data, out.last_completed_step)
         IN IF progress_update = None THEN out
            ELSE [out EXCEPT
                    !.stream = Append(@, progress_update),
                    !.last_completed_step =
                        IF NamesCompletedStep(progress_update) /\ progress_update.step > @
                        THEN progress_update.step ELSE @]

\* stream() raised: yield f"Execution Error: {str(e)}"
StreamRaised(out) ==
    IF ~Listening(out) THEN out
    ELSE [out EXCEPT !.stream = Append(@, [line |-> "execution_error", step |-> 0])]

StreamInput(plan, resp) ==
    /\ state' = ApplyUpdate(state, create_initial_state(plan))
    /\ node' = "start_workflow"
    /\ supersteps' = 0
    /\ raised' = FALSE
    /\ finalized' = FALSE
    /\ run' = run + 1
    /\ responses' = resp
    /\ calls' = <<>>
    /\ recorded' = <<>>
    /\ UNCHANGED <<vplan, vissues, validated, input, output,
                   checkpointer, cancelled, other>>

\* process_user_request, phases 1 to 3: create_plan logs the issues of the plan
\* and returns it; a later request of the same user runs on the same thread_id
ProcessUserRequest ==
    /\ node = "idle"
    /\ run < MaxRuns
    /\ \E plan \in Plans :
        /\ plan_issues' = _validate_plan(plan)
        /\ StreamInput(plan, AnyResponse)
    /\ at_break' = NoBreak

\* the same, with tools that answer every call of a step the same way
ProcessUserRequestFixed ==
    /\ node = "idle"
    /\ run = 0
    /\ \E plan \in Plans : \E resp \in FixedResponses :
        /\ plan_issues' = _validate_plan(plan)
        /\ StreamInput(plan, resp)
    /\ at_break' = NoBreak

Tick ==
    /\ supersteps < RecursionLimit
    /\ supersteps' = supersteps + 1

\* StepResults an update writes
Written(update) ==
    IF "step_results" \in DOMAIN update
    THEN LET m == update["step_results"] IN
         <<m[CHOOSE i \in DOMAIN m : TRUE]>>
    ELSE <<>>

StartWorkflow ==
    /\ node = "start_workflow"
    /\ Tick
    /\ state' = ApplyUpdate(state, start_workflow(state))
    /\ output' = Chunk(output, "start_workflow", start_workflow(state))
    /\ node' = "execute_step"
    /\ UNCHANGED <<raised, finalized, run, responses, plan_issues, calls, recorded,
                   at_break, vplan, vissues, validated, input,
                   checkpointer, cancelled, other>>

ExecuteStep ==
    /\ node = "execute_step"
    /\ Tick
    /\ LET update == execute_step(state) IN
        /\ state' = ApplyUpdate(state, update)
        /\ recorded' = recorded \o Written(update)
        /\ output' = Chunk(output, "execute_step", update)
    /\ node' = EdgeTarget(_route_from_step_executor(state'))
    /\ UNCHANGED <<raised, finalized, run, responses, plan_issues, calls, at_break,
                   vplan, vissues, validated, input, checkpointer, cancelled, other>>

ExecuteTools ==
    /\ node = "execute_tools"
    /\ Tick
    /\ \E outcome \in Outcomes(responses,
                               Get(Get(state.shared_context, "current_execution",
                                       EmptyDict), "step_index", 0)) :
        LET update == execute_tools_directly(state, outcome) IN
        /\ state' = ApplyUpdate(state, update)
        /\ recorded' = recorded \o Written(update)
        /\ output' = Chunk(output, "execute_tools", update)
    /\ calls' = calls \o ToolCallOf(state)
    /\ node' = "execute_step"
    /\ UNCHANGED <<raised, finalized, run, responses, plan_issues, at_break, vplan,
                   vissues, validated, input, checkpointer, cancelled, other>>

FinalizeWorkflow ==
    /\ node = "finalize_workflow"
    /\ Tick
    /\ state' = ApplyUpdate(state, finalize_workflow(state))
    /\ output' = Chunk(output, "finalize_workflow", finalize_workflow(state))
    /\ node' = "END"
    /\ finalized' = TRUE
    /\ UNCHANGED <<raised, run, responses, plan_issues, calls, recorded, at_break,
                   vplan, vissues, validated, input, checkpointer, cancelled, other>>

\* the run is out of steps: stream() raises GraphRecursionError, which
\* _execute_streaming_workflow reports as an execution error
RecursionError ==
    /\ node \in {"start_workflow", "execute_step", "execute_tools", "finalize_workflow"}
    /\ supersteps = RecursionLimit
    /\ node' = "END"
    /\ raised' = TRUE
    /\ output' = StreamRaised(output)
    /\ UNCHANGED <<state, supersteps, finalized, run, responses, plan_issues, calls,
                   recorded, at_break, vplan, vissues, validated, input,
                   checkpointer, cancelled, other>>

\* process_user_request, phase 4: the summary is yielded and the request is over
Summarize ==
    /\ node = "END"
    /\ node' = "idle"
    /\ supersteps' = 0
    /\ raised' = FALSE
    /\ finalized' = FALSE
    /\ plan_issues' = {}
    /\ calls' = <<>>
    /\ recorded' = <<>>
    /\ UNCHANGED <<state, run, responses, at_break, vplan, vissues, validated, input, output,
                   checkpointer, cancelled, other>>

Next ==
    \/ ProcessUserRequest
    \/ StartWorkflow
    \/ ExecuteStep
    \/ ExecuteTools
    \/ FinalizeWorkflow
    \/ RecursionError
    \/ Summarize

Spec == Init /\ [][Next]_vars

-----------------------------------------------------------------------------
(* validate_workflow_plan applied to the plans of VPlans *)

InitValidate ==
    /\ state = ChannelDefaults
    /\ node = "idle"
    /\ supersteps = 0
    /\ raised = FALSE
    /\ finalized = FALSE
    /\ run = 0
    /\ responses = AnyResponse
    /\ plan_issues = {}
    /\ calls = <<>>
    /\ recorded = <<>>
    /\ at_break = NoBreak
    /\ \E n \in 0..MaxSteps : \E off \in {0, 1} : \E d \in [1..n -> VDeps(n)] :
          vplan = VPlan(n, off, d)
    /\ vissues = {}
    /\ validated = FALSE
    /\ input = NoInput
    /\ output = NoOutput
    /\ checkpointer = "sqlite"
    /\ cancelled = {}
    /\ other = NoOther

Validate ==
    /\ ~validated
    /\ vissues' = validate_workflow_plan(vplan)
    /\ validated' = TRUE
    /\ UNCHANGED <<state, node, supersteps, raised, finalized, run, responses,
                   plan_issues, calls, recorded, at_break, vplan, input, output,
                   checkpointer, cancelled, other>>

NextValidate == Validate

SpecValidate == InitValidate /\ [][NextValidate]_vars

-----------------------------------------------------------------------------
(* graph_builder.py: analyze_workflow_dependencies, its loops a step at a   *)
(* time.  output holds the locals of the call:                               *)
(*   at           position in plan.steps of the loop that finds the chains   *)
(*   looping      the while loop of that step is running                     *)
(*   chain, current_deps, dependency_chains   as in the code                 *)
(* Of a chain or a current_deps longer than MaxChain the model keeps the     *)
(* first MaxChain entries, and of the entries of the chain beyond them       *)
(* whether their number is odd (beyond).                                      *)

\* max(S)
Max(S) == CHOOSE x \in S : \A y \in S : x >= y

\* the entries of a chain the model keeps: a plan without a cycle has no
\* chain this long
MaxChain == 2 ^ MaxSteps

\* xs[:MaxChain]
Kept(xs) == IF Len(xs) > MaxChain THEN SubSeq(xs, 1, MaxChain) ELSE xs

\* step_levels after the steps from position k of plan.steps on
RECURSIVE step_levels_from(_, _, _)
step_levels_from(plan, k, levels) ==
    IF k > Len(plan.steps) THEN levels
    ELSE LET step == plan.steps[k]
             max_dep_level ==
                 Max({0} \cup {Get(levels, dep, 0) : dep \in step.dependencies})
         IN step_levels_from(plan, k + 1,
                Upd(levels, step.step_index :> (max_dep_level + 1)))

step_levels(plan) == step_levels_from(plan, 1, EmptyDict)

\* level_groups: the steps of each level
level_groups(levels) ==
    [level \in {levels[idx] : idx \in DOMAIN levels} |->
        {idx \in DOMAIN levels : levels[idx] = level}]

\* the levels that hold more than one step
parallel_opportunities(groups) ==
    {[level |-> level, parallel_steps |-> groups[level]] :
        level \in {l \in DOMAIN groups : Cardinality(groups[l]) > 1}}

\* plans handed to the analysis: the indices 1..n listed in any order, up to
\* two dependencies a step on the indices of the plan
Orders(n) == {o \in [1..n -> 1..n] : \A i, j \in 1..n : o[i] = o[j] => i = j}

ADeps(n) == {d \in SUBSET (1..n) : Cardinality(d) <= 2}

APlan(n, order, d) ==
    [steps |-> [k \in 1..n |-> ExecutionStep(order[k], d[order[k]])]]

InitAnalyze ==
    /\ state = ChannelDefaults
    /\ node = "idle"
    /\ supersteps = 0
    /\ raised = FALSE
    /\ finalized = FALSE
    /\ run = 0
    /\ responses = AnyResponse
    /\ plan_issues = {}
    /\ calls = <<>>
    /\ recorded = <<>>
    /\ at_break = NoBreak
    /\ \E n \in 0..MaxSteps : \E order \in Orders(n) : \E d \in [1..n -> ADeps(n)] :
          vplan = APlan(n, order, d)
    /\ vissues = {}
    /\ validated = FALSE
    /\ input = NoInput
    /\ output = NoOutput
    /\ checkpointer = "sqlite"
    /\ cancelled = {}
    /\ other = NoOther

AnalysisUnchanged ==
    UNCHANGED <<state, node, supersteps, raised, finalized, run, responses,
                plan_issues, calls, recorded, at_break, vplan, vissues, validated,
                input, checkpointer, cancelled, other>>

\* the call: the steps are put into independent_steps and dependent_steps
BeginAnalysis ==
    /\ output = NoOutput
    /\ output' =
         [done |-> FALSE, at |-> 1, looping |-> FALSE, beyond |-> 0,
          chain |-> <<>>, current_deps |-> <<>>, dependency_chains |-> <<>>,
          independent_steps |->
              {vplan.steps[k].step_index :
                  k \in {j \in 1..Len(vplan.steps) : vplan.steps[j].dependencies = {}}}]
    /\ AnalysisUnchanged

Analysing == "at" \in DOMAIN output /\ ~output.done

\* for step in plan.steps: if step.dependencies: chain = [step.step_index]
EnterStep ==
    /\ Analysing /\ ~output.looping /\ output.at <= Len(vplan.steps)
    /\ LET step == vplan.steps[output.at] IN
       output' =
         IF step.dependencies = {}
         THEN [output EXCEPT !.at = @ + 1]
         ELSE [output EXCEPT !.looping = TRUE,
                             !.beyond = 0,
                             !.chain = <<step.step_index>>,
                             !.current_deps = InOrder(step.dependencies)]
    /\ AnalysisUnchanged

\* one pass of `while current_deps:`
ChainStep ==
    /\ Analysing /\ output.looping /\ output.current_deps # <<>>
    /\ LET next_dep == Head(output.current_deps)
           dep_step == StepWithIndex(vplan, next_dep)
       IN output' =
            [output EXCEPT
                !.chain = Kept(<<next_dep>> \o @),
                !.beyond = IF Len(output.chain) = MaxChain THEN 1 - @ ELSE @,
                !.current_deps =
                    Kept(Tail(@) \o (IF IsEmpty(dep_step) THEN <<>>
                                     ELSE InOrder(dep_step.dependencies)))]
    /\ AnalysisUnchanged

\* current_deps is empty: the chain is kept if it has more than two entries
ChainEnd ==
    /\ Analysing /\ output.looping /\ output.current_deps = <<>>
    /\ output' =
         [output EXCEPT
             !.looping = FALSE,
             !.at = @ + 1,
             !.dependency_chains =
                 IF Len(output.chain) > 2 THEN Append(@, output.chain) ELSE @]
    /\ AnalysisUnchanged

\* the levels, the groups and the return
FinishAnalysis ==
    /\ Analysing /\ ~output.looping /\ output.at > Len(vplan.steps)
    /\ LET levels == step_levels(vplan) IN
       output' =
         [done |-> TRUE, at |-> output.at,
          total_steps |-> Len(vplan.steps),
          independent_steps |-> output.independent_steps,
          dependency_chains |-> output.dependency_chains,
          step_levels |-> levels,
          level_groups |-> level_groups(levels),
          parallel_opportunities |-> parallel_opportunities(level_groups(levels))]
    /\ AnalysisUnchanged

NextAnalyze ==
    \/ BeginAnalysis
    \/ EnterStep
    \/ ChainStep
    \/ ChainEnd
    \/ FinishAnalysis

\* the call runs on one thread: a loop that can make a pass makes it
SpecAnalyze == InitAnalyze /\ [][NextAnalyze]_vars /\ WF_vars(NextAnalyze)

-----------------------------------------------------------------------------
(* One request whose run is cut between two nodes and taken up again *)

Running == {"start_workflow", "execute_step", "execute_tools", "finalize_workflow"}

\* the process stops after the checkpoint of a node was written
Interrupt ==
    /\ node \in Running
    /\ supersteps >= 1
    /\ ~at_break.resumed
    /\ node' = "interrupted"
    /\ at_break' = [resumed |-> FALSE, completed |-> CompletedSteps(state)]
    /\ UNCHANGED <<state, supersteps, raised, finalized, run, responses, plan_issues,
                   calls, recorded, vplan, vissues, validated, input, output,
                   checkpointer, cancelled, other>>

\* the request is made again: process_user_request streams the initial state of
\* the same plan on the thread_id of the user, whose checkpoint is the interrupted run's
Resume ==
    /\ node = "interrupted"
    /\ StreamInput(state.plan, responses)
    /\ at_break' = [at_break EXCEPT !.resumed = TRUE]
    /\ UNCHANGED plan_issues

NextResume ==
    \/ ProcessUserRequestFixed
    \/ StartWorkflow
    \/ ExecuteStep
    \/ ExecuteTools
    \/ FinalizeWorkflow
    \/ RecursionError
    \/ Interrupt
    \/ Resume

SpecResume == Init /\ [][NextResume]_vars

\* The run of the graph from node nd in state st with the tools answering by
\* resp, never interrupted: the state it ends in and how it ends
RECURSIVE RunGraph(_, _, _, _)
RunGraph(st, nd, n, resp) ==
    IF nd = "END" THEN [state |-> st, raised |-> FALSE]
    ELSE IF n = RecursionLimit THEN [state |-> st, raised |-> TRUE]
    ELSE CASE nd = "start_workflow" ->
                RunGraph(ApplyUpdate(st, start_workflow(st)), "execute_step", n + 1, resp)
           [] nd = "execute_step" ->
                LET next == ApplyUpdate(st, execute_step(st)) IN
                RunGraph(next, EdgeTarget(_route_from_step_executor(next)), n + 1, resp)
           [] nd = "execute_tools" ->
                LET step_index == Get(Get(st.shared_context, "current_execution",
                                          EmptyDict), "step_index", 0)
                    outcome == CHOOSE o \in Outcomes(resp, step_index) : TRUE
                IN RunGraph(ApplyUpdate(st, execute_tools_directly(st, outcome)),
                            "execute_step", n + 1, resp)
           [] nd = "finalize_workflow" ->
                RunGraph(ApplyUpdate(st, finalize_workflow(st)), "END", n + 1, resp)

Uninterrupted(plan, resp) ==
    RunGraph(ApplyUpdate(ChannelDefaults, create_initial_state(plan)),
             "start_workflow", 0, resp)

-----------------------------------------------------------------------------
(* One request whose tools return results with addresses, links and ids *)

\* what a tool returns when its own call failed: the text its except block
\* makes of the error
FailureResults == {"failed_to_read_emails"}

\* the tool's own outcome is a failure
ToolFailed(result) == result \in FailureResults

\* results the tool returns on which the handing on of data raises
UnreadableResults == {"emails_a_unextractable", "emails_b_unmergeable"}

DataResults ==
    {"emails_a", "emails_ab", "event_e1_link_a", "emails_b_link_b"} \cup FailureResults

\* the tool of a step position raises or returns the same result at every call
DataResponses == [1..MaxSteps -> {"raise"} \cup DataResults]

\* plans whose steps depend on nothing or on the step before
DataPlans ==
    {plan \in PlansOfLength(MaxSteps) :
        \A i \in 1..MaxSteps : plan.steps[i].dependencies \in {{}, {i - 1}}}

ProcessUserRequestData ==
    /\ node = "idle"
    /\ run = 0
    /\ \E plan \in DataPlans : \E resp \in DataResponses :
        /\ plan_issues' = _validate_plan(plan)
        /\ StreamInput(plan, resp)
    /\ at_break' = NoBreak

NextData ==
    \/ ProcessUserRequestData
    \/ StartWorkflow
    \/ ExecuteStep
    \/ ExecuteTools
    \/ FinalizeWorkflow
    \/ RecursionError
    \/ Summarize

SpecData == Init /\ [][NextData]_vars

-----------------------------------------------------------------------------
(* One request whose tools return results the handing on of data raises on *)

ExtractResponses == [1..MaxSteps -> {"raise", "emails_a"} \cup UnreadableResults]

ProcessUserRequestExtract ==
    /\ node = "idle"
    /\ run = 0
    /\ \E plan \in DataPlans : \E resp \in ExtractResponses :
        /\ plan_issues' = _validate_plan(plan)
        /\ StreamInput(plan, resp)
    /\ at_break' = NoBreak

NextExtract ==
    \/ ProcessUserRequestExtract
    \/ StartWorkflow
    \/ ExecuteStep
    \/ ExecuteTools
    \/ FinalizeWorkflow
    \/ RecursionError
    \/ Summarize

SpecExtract == Init /\ [][NextExtract]_vars

-----------------------------------------------------------------------------
(* Two users with one request each, and cancellation *)

Users == {"user", "other"}

CheckpointerKinds == {"sqlite", "memory"}

\* StateManager.__init__: the thread of a user, and where its checkpoints are
\* kept: the file of the user on disk, or the MemorySaver of the user's
\* StateManager
thread_id(user_id) == <<"workflow_", user_id>>

\* one file and one thread for every user
CheckpointKeyShared(kind, user_id) ==
    IF kind = "memory"
    THEN <<"MemorySaver", thread_id("user")>>
    ELSE <<"data/checkpoints/checkpoints.db", thread_id("user")>>

CheckpointKey(kind, user_id) ==
    IF kind = "memory"
    THEN <<"MemorySaver", user_id, thread_id(user_id)>>
    ELSE <<"data/checkpoints/user_", user_id, ".db", thread_id(user_id)>>

\* StateManager.clear_workflow on the channel values st it finds: the storage
\* of a MemorySaver is emptied, the file of a SqliteSaver is left as it is
clear_workflow(kind, st) == IF kind = "memory" THEN ChannelDefaults ELSE st

\* one node of the graph on the channel values st: the values it leaves and
\* the node that follows
RunNode(st, nd, resp) ==
    CASE nd = "start_workflow" ->
            [state |-> ApplyUpdate(st, start_workflow(st)), node |-> "execute_step"]
      [] nd = "execute_step" ->
            LET next == ApplyUpdate(st, execute_step(st)) IN
            [state |-> next, node |-> EdgeTarget(_route_from_step_executor(next))]
      [] nd = "execute_tools" ->
            LET step_index == Get(Get(st.shared_context, "current_execution",
                                      EmptyDict), "step_index", 0)
                outcome == CHOOSE o \in Outcomes(resp, step_index) : TRUE
            IN [state |-> ApplyUpdate(st, execute_tools_directly(st, outcome)),
                node |-> "execute_step"]
      [] nd = "finalize_workflow" ->
            [state |-> ApplyUpdate(st, finalize_workflow(st)), node |-> "END"]

\* the plans and tools of the two users: only the tool of the first step may
\* raise, and the steps of the second user's plan depend on nothing
UserPlans == DataPlans

UserResponses == {resp \in FixedResponses : \A i \in 2..MaxSteps : resp[i] = "ok"}

OtherPlans ==
    {plan \in UserPlans : \A i \in 1..MaxSteps : plan.steps[i].dependencies = {}}

InitUsers ==
    /\ state = ChannelDefaults
    /\ node = "idle"
    /\ supersteps = 0
    /\ raised = FALSE
    /\ finalized = FALSE
    /\ run = 0
    /\ responses = AnyResponse
    /\ plan_issues = {}
    /\ calls = <<>>
    /\ recorded = <<>>
    /\ at_break = NoBreak
    /\ vplan = [steps |-> <<>>]
    /\ vissues = {}
    /\ validated = FALSE
    /\ input = NoInput
    /\ output = NoOutput
    /\ checkpointer \in CheckpointerKinds
    /\ cancelled = {}
    /\ other = NoOther

ProcessUserRequestUsers ==
    /\ node = "idle"
    /\ run = 0
    /\ \E plan \in UserPlans : \E resp \in UserResponses :
        /\ plan_issues' = _validate_plan(plan)
        /\ StreamInput(plan, resp)
    /\ at_break' = NoBreak

\* cancel_workflow of the user: a MemorySaver is within reach only of the
\* StateManager it was made for, between the runs of its graph
CancelWorkflow ==
    /\ "user" \notin cancelled
    /\ checkpointer = "memory" => node \notin Running
    /\ state' = clear_workflow(checkpointer, state)
    /\ cancelled' = cancelled \cup {"user"}
    /\ UNCHANGED <<node, supersteps, raised, finalized, run, responses, plan_issues,
                   calls, recorded, at_break, vplan, vissues, validated, input, output,
                   checkpointer, other>>

\* the channel values kept for the second user
OtherPersisted ==
    IF CheckpointKey(checkpointer, "other") = CheckpointKey(checkpointer, "user")
    THEN state ELSE other.state

\* the second user's StateManager writes the channel values st where it keeps
\* its checkpoints; its graph goes on at node nd
OtherPut(st, nd, n, resp) ==
    LET own == CheckpointKey(checkpointer, "other") # CheckpointKey(checkpointer, "user")
    IN
    /\ state' = IF own THEN state ELSE st
    /\ other' = [state |-> IF own THEN st ELSE other.state,
                 node |-> nd, supersteps |-> n, responses |-> resp]

\* process_user_request of the second user
OtherRequest ==
    /\ other.node = "idle"
    /\ \E plan \in OtherPlans : \E resp \in UserResponses :
        OtherPut(ApplyUpdate(OtherPersisted, create_initial_state(plan)),
                 "start_workflow", 0, resp)
    /\ UNCHANGED <<node, supersteps, raised, finalized, run, responses, plan_issues,
                   calls, recorded, at_break, vplan, vissues, validated, input, output,
                   checkpointer, cancelled>>

\* a node of the second user's graph, or the end of its run by the recursion limit
OtherNode ==
    /\ other.node \in Running
    /\ IF other.supersteps = RecursionLimit
       THEN /\ other' = [other EXCEPT !.node = "END"]
            /\ state' = state
       ELSE LET next == RunNode(OtherPersisted, other.node, other.responses) IN
            OtherPut(next.state, next.node, other.supersteps + 1, other.responses)
    /\ UNCHANGED <<node, supersteps, raised, finalized, run, responses, plan_issues,
                   calls, recorded, at_break, vplan, vissues, validated, input, output,
                   checkpointer, cancelled>>

\* cancel_workflow of the second user
OtherCancel ==
    /\ "other" \notin cancelled
    /\ checkpointer = "memory" => other.node \notin Running
    /\ OtherPut(clear_workflow(checkpointer, OtherPersisted),
                other.node, other.supersteps, other.responses)
    /\ cancelled' = cancelled \cup {"other"}
    /\ UNCHANGED <<node, supersteps, raised, finalized, run, responses, plan_issues,
                   calls, recorded, at_break, vplan, vissues, validated, input, output,
                   checkpointer>>

NextUsers ==
    \/ ProcessUserRequestUsers
    \/ StartWorkflow
    \/ ExecuteStep
    \/ ExecuteTools
    \/ FinalizeWorkflow
    \/ RecursionError
    \/ CancelWorkflow
    \/ OtherRequest
    \/ OtherNode
    \/ OtherCancel

SpecUsers == InitUsers /\ [][NextUsers]_vars

-----------------------------------------------------------------------------
(* One request whose plan names its actions as the planning model wrote them *)

\* llm_planner.py, _map_action_name: the ActionType of the action name of a step
_map_action_name(action_name) ==
    CASE action_name = "send_email_tool" -> "send_email"
      [] action_name = "search_emails_tool" -> "search_emails"
      [] action_name = "read_recent_emails_tool" -> "read_emails"
      [] action_name = "get_email_threads_tool" -> "get_threads"
      [] action_name = "create_calendar_event_tool" -> "create_event"
      [] action_name = "list_calendar_events_tool" -> "list_events"
      [] action_name = "update_calendar_event_tool" -> "update_event"
      [] action_name = "delete_calendar_event_tool" -> "delete_event"
      [] action_name = "get_calendar_event_tool" -> "get_event"
      [] action_name = "upload_file_to_drive_tool" -> "upload_file"
      [] action_name = "search_files_in_drive_tool" -> "search_files"
      [] action_name = "share_drive_file_tool" -> "share_file"
      [] action_name = "download_drive_file_tool" -> "download_file"
      [] action_name = "list_recent_drive_files_tool" -> "list_files"
      [] action_name = "get_drive_file_info_tool" -> "search_files"
      [] OTHER -> "read_emails"

\* the action names a handler is registered for: the tools of the registry
RegisteredActionNames == tools_by_name

\* the action names the planning model writes: two with a handler and one without
ActionNames == {"read_recent_emails_tool", "send_email_tool", "translate_text_tool"}

\* _parse_plan: the steps of plan with the actions named by action_names
_parse_plan(plan, action_names) ==
    [steps |-> [i \in 1..Len(plan.steps) |->
                  [plan.steps[i] EXCEPT !.action = _map_action_name(action_names[i])]]]

InitActions ==
    /\ state = ChannelDefaults
    /\ node = "idle"
    /\ supersteps = 0
    /\ raised = FALSE
    /\ finalized = FALSE
    /\ run = 0
    /\ responses = AnyResponse
    /\ plan_issues = {}
    /\ calls = <<>>
    /\ recorded = <<>>
    /\ at_break = NoBreak
    /\ vplan = [steps |-> <<>>]
    /\ vissues = {}
    /\ validated = FALSE
    /\ input \in {[fn |-> "_parse_plan", action_names |-> names] :
                     names \in [1..MaxSteps -> ActionNames]}
    /\ output = NoOutput
    /\ checkpointer = "sqlite"
    /\ cancelled = {}
    /\ other = NoOther

ProcessUserRequestActions ==
    /\ node = "idle"
    /\ run = 0
    /\ \E plan \in UserPlans : \E resp \in UserResponses :
        LET parsed == _parse_plan(plan, input.action_names) IN
        /\ plan_issues' = _validate_plan(parsed)
        /\ StreamInput(parsed, resp)
    /\ at_break' = NoBreak

NextActions ==
    \/ ProcessUserRequestActions
    \/ StartWorkflow
    \/ ExecuteStep
    \/ ExecuteTools
    \/ FinalizeWorkflow
    \/ RecursionError
    \/ Summarize

SpecActions == InitActions /\ [][NextActions]_vars

-----------------------------------------------------------------------------
(* One request on a thread that carries the channels the nodes only write *)

\* the channels of create_initial_state the thread of the runs above leaves out
WriteOnlyChannels == [progress_messages |-> <<>>, error_count |-> 0, retry_count |-> 0]

\* create_initial_state with progress_messages, error_count and retry_count,
\* streamed on a thread no checkpoint was written for
ProcessUserRequestProgress ==
    /\ node = "idle"
    /\ run = 0
    /\ \E plan \in UserPlans :
        /\ plan_issues' = _validate_plan(plan)
        /\ state' = ApplyUpdate(Upd(ChannelDefaults, WriteOnlyChannels),
                                Upd(create_initial_state(plan), WriteOnlyChannels))
    /\ responses' = AnyResponse
    /\ node' = "start_workflow"
    /\ supersteps' = 0
    /\ raised' = FALSE
    /\ finalized' = FALSE
    /\ run' = run + 1
    /\ calls' = <<>>
    /\ recorded' = <<>>
    /\ at_break' = NoBreak
    /\ UNCHANGED <<vplan, vissues, validated, input, output, checkpointer, cancelled,
                   other>>

NextProgress ==
    \/ ProcessUserRequestProgress
    \/ StartWorkflow
    \/ ExecuteStep
    \/ ExecuteTools
    \/ FinalizeWorkflow
    \/ RecursionError
    \/ Summarize

SpecProgress == Init /\ [][NextProgress]_vars

-----------------------------------------------------------------------------
(* One request whose progress the caller reads from the generator *)

\* step_count = 0, last_completed_step = 0
NoLines == [done |-> FALSE, stream |-> <<>>, last_completed_step |-> 0]

ProcessUserRequestStream ==
    /\ node = "idle"
    /\ run = 0
    /\ \E plan \in UserPlans :
        /\ plan_issues' = _validate_plan(plan)
        /\ state' = ApplyUpdate(Upd(ChannelDefaults, WriteOnlyChannels),
                                Upd(create_initial_state(plan), WriteOnlyChannels))
    /\ responses' = AnyResponse
    /\ node' = "start_workflow"
    /\ supersteps' = 0
    /\ raised' = FALSE
    /\ finalized' = FALSE
    /\ run' = run + 1
    /\ calls' = <<>>
    /\ recorded' = <<>>
    /\ at_break' = NoBreak
    /\ output' = NoLines
    /\ UNCHANGED <<vplan, vissues, validated, input, checkpointer, cancelled, other>>

NextStream ==
    \/ ProcessUserRequestStream
    \/ StartWorkflow
    \/ ExecuteStep
    \/ ExecuteTools
    \/ FinalizeWorkflow
    \/ RecursionError
    \/ Summarize

SpecStream == Init /\ [][NextStream]_vars

-----------------------------------------------------------------------------
(* One request, and the thread read while the checkpoint store answers or fails *)

\* what checkpointer.get does when the thread is read
StoreReads == {"returns", "raises"}

\* the UI reads the thread of the user: get_thread_state, get_workflow_progress
\* and get_final_results on what the store answers
ReadThread ==
    /\ run >= 1
    /\ ~output.done
    /\ \E read \in StoreReads :
        LET checkpoint == IF read = "raises" THEN StoreError ELSE state IN
        output' = [done |-> TRUE, read |-> read,
                   thread_state |-> get_thread_state(checkpoint),
                   progress |-> get_workflow_progress(checkpoint),
                   final_results |-> get_final_results(checkpoint)]
    /\ UNCHANGED <<state, node, supersteps, raised, finalized, run, responses,
                   plan_issues, calls, recorded, at_break, vplan, vissues, validated,
                   input, checkpointer, cancelled, other>>

NextRead ==
    \/ ProcessUserRequestProgress
    \/ StartWorkflow
    \/ ExecuteStep
    \/ ExecuteTools
    \/ FinalizeWorkflow
    \/ RecursionError
    \/ Summarize
    \/ ReadThread

SpecRead == Init /\ [][NextRead]_vars

-----------------------------------------------------------------------------
(* Functions of the engine applied on their own: the arguments are drawn in *)
(* the initial state and one action applies the function                     *)

Elements(xs) == {xs[i] : i \in DOMAIN xs}

NoDuplicates(xs) == \A i, j \in DOMAIN xs : xs[i] = xs[j] => i = j

ListsOver(values, n) == UNION {[1..k -> values] : k \in 0..n}

\* a dict with the entry key: v for a v of values, or without it
OptionalEntry(key, values) == {EmptyDict} \cup {(key :> v) : v \in values}

Contacts == {"a@x.com", "b@x.com"}

\* values of meeting_details, some of them with a map inside
MapValues ==
    {EmptyDict,
     [meet_link |-> "link_a"],
     [venue |-> [room |-> "r1"]],
     [venue |-> [floor |-> "f2"]],
     [meet_link |-> "link_b", venue |-> [room |-> "r2", floor |-> "f2"]]}

\* context updates on scalar and list keys
FlatContexts ==
    {a @@ b @@ c :
        a \in OptionalEntry("meeting_link", {"link_a", "link_b"}),
        b \in OptionalEntry("event_id", {"e1"}),
        c \in OptionalEntry("discovered_contacts", ListsOver(Contacts, MaxList))}

Contexts == {a @@ d : a \in FlatContexts, d \in OptionalEntry("meeting_details", MapValues)}

BaseContexts ==
    {EmptyDict,
     create_initial_state([steps |-> <<>>]).shared_context,
     [meeting_link |-> "link_a", event_id |-> "e0",
      discovered_contacts |-> <<"a@x.com">>,
      meeting_details |-> [meet_link |-> "link_a", venue |-> [room |-> "r1"]]]}

StatesToUpdate ==
    {Upd(Upd(create_initial_state([steps |-> <<>>]), WriteOnlyChannels),
         [shared_context |-> sc, step_results |-> sr, error_count |-> n]) :
        sc \in BaseContexts,
        sr \in {EmptyDict,
                1 :> StepResult(1, "completed", [tool_output |-> "ok"], "none"),
                1 :> StepResult(1, "failed", EmptyDict, "tool_exception")},
        n \in {0, 1}}

ExtractedData ==
    {EmptyDict}
        \cup {[context_updates |-> c] : c \in FlatContexts \ {EmptyDict}}
        \cup {[for_future_steps |-> c] : c \in FlatContexts \ {EmptyDict}}


\* the entries of a shared_context in the order of their insertion: the entries
\* of create_initial_state first, then the entries of the steps
ContextItems ==
    {<<<<"user_id", Str(<<"u1">>)>>>> \o contacts \o link \o named \o groups \o notes :
        contacts \in {<<>>} \cup {<<<<"discovered_contacts", List(xs)>>>> :
                                     xs \in ListsOver(Contacts, MaxList)},
        link \in {<<>>, <<<<"meeting_link", Str(<<"link_a">>)>>>>},
        named \in {<<>>, <<<<"contact_list", List(<<"c@x.com">>)>>>>,
                   <<<<"event_details", Dict(<<"room", "r1">>)>>>>},
        groups \in {<<>>, <<<<"contact_groups", List(<<"g1">>)>>>>},
        notes \in {<<>>, <<<<"contact_notes", Str(<<"n1">>)>>>>}}

\* the same entries with one entry of the steps inserted before the entries of
\* create_initial_state, as dict iteration finds it first
EarlyItems(items) ==
    {items} \cup {<<items[Len(items)]>> \o SubSeq(items, 1, Len(items) - 1)}

\* the extracted_data of the step results of a state
ResultData ==
    {EmptyDict,
     1 :> [tool_output |-> Str(<<"out1">>)],
     1 :> [tool_output |-> Str(<<"out1">>), contact_list |-> List(<<"a@x.com">>)],
     1 :> [tool_output |-> Str(<<"out1">>)]
        @@ 2 :> [tool_output |-> Str(<<"out2">>), contact_list |-> List(<<"b@x.com">>),
                 meeting_link |-> Str(<<"link_b">>)],
     1 :> [tool_output |-> Str(<<"out1">>), contact_list |-> List(<<"a@x.com">>)]
        @@ 2 :> [tool_output |-> Str(<<"out2">>), contact_list |-> List(<<"b@x.com">>),
                 meeting_link |-> Str(<<"link_b">>)],
     1 :> EmptyDict
        @@ 2 :> [tool_output |-> Str(<<"out2">>), team_list |-> List(<<>>)]}

\* the part of a WorkflowState template resolution reads
ResolverState(items, data) ==
    [user_id |-> "u1",
     shared_context |-> [k \in {items[p][1] : p \in DOMAIN items} |->
                            items[CHOOSE p \in DOMAIN items : items[p][1] = k][2]],
     context_keys |-> [p \in DOMAIN items |-> items[p][1]],
     step_results |-> [i \in DOMAIN data |->
                          [step_index |-> i, status |-> "completed",
                           extracted_data |-> data[i]]]]

\* the names looked up
VariableNames ==
    {"meeting_link", "contact_list", "attendee_emails", "team_list", "tool_output",
     "event_details", "discovered_contacts", "missing"}

\* the states parameters are resolved in
ResolveStates ==
    {ResolverState(items, data) :
        items \in {<<<<"user_id", Str(<<"u1">>)>>>>,
                   <<<<"user_id", Str(<<"u1">>)>>, <<"meeting_link", Str(<<"link_a">>)>>>>,
                   <<<<"user_id", Str(<<"u1">>)>>,
                     <<"discovered_contacts", List(<<"a@x.com", "b@x.com">>)>>,
                     <<"meeting_link", Str(<<"link_a">>)>>,
                     <<"event_details", Dict(<<"room", "r1">>)>>>>},
        data \in ResultData}

\* the pieces a string parameter is put together from
Segments ==
    {<<"Join: ">>, <<" and ">>, Template("meeting_link"), Template("contact_list"),
     Template("event_details"), Template("missing"), Template("user_id")}

RECURSIVE Concat(_)
Concat(segments) == IF segments = <<>> THEN <<>> ELSE Head(segments) \o Concat(Tail(segments))

\* the values of a parameter of a plan
ParameterValues ==
    {Str(Concat(segments)) : segments \in ListsOver(Segments, MaxSegments) \ {<<>>}}
        \cup {List(<<"a@x.com">>), Bool(FALSE), Str(<<"u2">>)}

\* the other parameters of the step
OtherParameters ==
    {EmptyDict,
     [title |-> Str(<<"Sync">>), attendees |-> Str(Template("contact_list"))],
     [subject |-> Str(<<"Hello">>), include_meet |-> Bool(FALSE),
      timezone |-> Str(<<"CET">>)]}

\* parameters before the defaults: each key absent or present with a value
DefaultedParameters ==
    {a @@ b @@ c @@ d @@ e @@ f @@ g :
        a \in OptionalEntry("to", {List(<<"a@x.com">>)}),
        b \in OptionalEntry("subject", {Str(<<"Hello">>), Str(<<>>)}),
        c \in OptionalEntry("body", {Str(<<"Text">>)}),
        d \in OptionalEntry("title", {Str(<<"Sync">>)}),
        e \in OptionalEntry("timezone", {Str(<<"CET">>)}),
        f \in OptionalEntry("attendees", {List(<<"a@x.com">>), List(<<>>)}),
        g \in OptionalEntry("include_meet", {Bool(FALSE), Bool(TRUE)})}

\* step_results with no result, a completed one or a failed one for every step
DependencyResults ==
    {[k \in DOMAIN statuses |->
         IF statuses[k] = "failed"
         THEN StepResult(k, "failed", EmptyDict, "tool_exception")
         ELSE StepResult(k, "completed", [tool_output |-> "ok"], "none")] :
       statuses \in UNION {[done -> {"completed", "failed"}] :
                              done \in SUBSET (1..MaxSteps)}}

ApplyInputs(i) ==
    \/ \E existing, new \in Contexts :
          i = [fn |-> "merge_context", existing |-> existing, new |-> new]
    \/ \E base \in BaseContexts : \E a, b \in FlatContexts :
          i = [fn |-> "merge_context_twice", base |-> base, a |-> a, b |-> b]
    \/ \E st \in StatesToUpdate : \E k \in 1..2 : \E status \in {"completed", "failed"} :
       \E extracted_data \in ExtractedData :
          i = [fn |-> "update_step_completion", state |-> st,
               step_result |-> IF status = "failed"
                               THEN StepResult(k, status, EmptyDict, "tool_exception")
                               ELSE StepResult(k, status, [tool_output |-> "ok"], "none"),
               extracted_data |-> extracted_data]
    \/ \E items \in ContextItems : \E ordered \in EarlyItems(items) :
       \E data \in ResultData : \E name \in VariableNames :
          i = [fn |-> "_lookup_variable", var_name |-> Spell(name),
               state |-> ResolverState(ordered, data)]
    \/ \E st \in ResolveStates : \E key \in {"to", "body", "user_id"} :
       \E value \in ParameterValues : \E others \in OtherParameters :
          i = [fn |-> "_resolve_template_variables",
               parameters |-> Upd(others, key :> value), state |-> st]
    \/ \E params \in DefaultedParameters : \E st \in ResolveStates :
          /\ IsEmpty(st.step_results)
          /\ i = [fn |-> "_add_smart_defaults", params |-> params, state |-> st]
    \/ \E results \in DependencyResults : \E deps \in SUBSET (1..MaxSteps) :
          i = [fn |-> "_check_step_dependencies",
               state |-> [step_results |-> results],
               step |-> ExecutionStep(MaxSteps + 1, deps)]

InitApply ==
    /\ state = ChannelDefaults
    /\ node = "idle"
    /\ supersteps = 0
    /\ raised = FALSE
    /\ finalized = FALSE
    /\ run = 0
    /\ responses = AnyResponse
    /\ plan_issues = {}
    /\ calls = <<>>
    /\ recorded = <<>>
    /\ at_break = NoBreak
    /\ vplan = [steps |-> <<>>]
    /\ vissues = {}
    /\ validated = FALSE
    /\ ApplyInputs(input)
    /\ output = NoOutput
    /\ checkpointer = "sqlite"
    /\ cancelled = {}
    /\ other = NoOther

Returns(fn, value) ==
    /\ input.fn = fn
    /\ ~output.done
    /\ output' = [done |-> TRUE, value |-> value]
    /\ UNCHANGED <<state, node, supersteps, raised, finalized, run, responses,
                   plan_issues, calls, recorded, at_break, vplan, vissues, validated,
                   input, checkpointer, cancelled, other>>

MergeContext ==
    /\ input.fn = "merge_context"
    /\ Returns("merge_context", merge_context(input.existing, input.new))

\* two updates merged into the context one after the other, in both orders
MergeContextTwice ==
    /\ input.fn = "merge_context_twice"
    /\ Returns("merge_context_twice",
               [ab |-> merge_context(merge_context(input.base, input.a), input.b),
                ba |-> merge_context(merge_context(input.base, input.b), input.a)])

\* the update of a step completion applied to a state once, and once more
UpdateStepCompletion ==
    /\ input.fn = "update_step_completion"
    /\ LET update == update_step_completion(input.step_result, input.extracted_data)
           once == ApplyUpdate(input.state, update)
       IN Returns("update_step_completion",
                  [update |-> update, once |-> once, twice |-> ApplyUpdate(once, update)])

LookupVariable ==
    /\ input.fn = "_lookup_variable"
    /\ Returns("_lookup_variable", _lookup_variable(input.var_name, input.state))

ResolveTemplateVariables ==
    /\ input.fn = "_resolve_template_variables"
    /\ Returns("_resolve_template_variables",
               _resolve_template_variables(input.parameters, input.state))

AddSmartDefaults ==
    /\ input.fn = "_add_smart_defaults"
    /\ Returns("_add_smart_defaults", _add_smart_defaults(input.params, input.state))

CheckStepDependencies ==
    /\ input.fn = "_check_step_dependencies"
    /\ Returns("_check_step_dependencies",
               check_step_dependencies_result(input.state, input.step))

NextApply ==
    \/ CheckStepDependencies
    \/ MergeContext
    \/ MergeContextTwice
    \/ UpdateStepCompletion
    \/ LookupVariable
    \/ ResolveTemplateVariables
    \/ AddSmartDefaults

SpecApply == InitApply /\ [][NextApply]_vars

-----------------------------------------------------------------------------
(* Properties of the engine *)

Terminal == {"completed", "failed"}

\* a tool.invoke call is made in this step
Invokes == Len(calls') > Len(calls)

Invoked == calls'[Len(calls')]

\* C1: no tool call for a step is invoked before every index of the step's
\* dependencies has a terminal StepResult (completed or failed) in step_results
C1_DependenciesBeforeCall ==
    [][Invokes =>
        \A dep \in Invoked.step.dependencies :
            /\ dep \in DOMAIN state.step_results
            /\ state.step_results[dep].status \in Terminal]_vars

\* the tool of a step that has a dependency was invoked
C1_Witness ==
    \E i \in DOMAIN calls :
        /\ calls[i].step.dependencies # {}
        /\ calls[i].step_index \in CompletedSteps(state)

\* execute_step runs with the cursor on a step whose result has one of statuses
CursorOn(statuses) ==
    /\ node = "execute_step"
    /\ supersteps' = supersteps + 1
    /\ state.current_step \in 1..Len(state.plan.steps)
    /\ state.current_step \in DOMAIN state.step_results
    /\ state.step_results[state.current_step].status \in statuses

\* the engine leaves alone every result that has one of statuses: its
\* tool is not invoked, the result is not changed, and execute_step with the
\* cursor on it only moves the cursor past it
LeftAlone(statuses) ==
    /\ \A k \in DOMAIN state.step_results :
          state.step_results[k].status \in statuses =>
              /\ state'.step_results[k] = state.step_results[k]
              /\ ~(Invokes /\ Invoked.step_index = k)
    /\ CursorOn(statuses) =>
          /\ state'.current_step = state.current_step + 1
          /\ state'.step_results = state.step_results
          /\ state'.shared_context = state.shared_context

RecordedFor(k) == {j \in DOMAIN recorded : recorded[j].step_index = k}

\* C3: when the tool call of a step raises, exactly one StepResult, with status
\* failed and the exception as its message, is recorded for that step over the
\* whole run
C3_OneFailedResult ==
    \A j \in DOMAIN recorded :
        recorded[j].error_message = "tool_exception" =>
            /\ recorded[j].status = "failed"
            /\ RecordedFor(recorded[j].step_index) = {j}

\* C4: the graph run reaches finalize_workflow and ends, whatever the plan and
\* whatever each tool call does
C4_RunReachesFinalize == node = "END" => (finalized /\ ~raised)

\* a StepResult with status failed was written in the current run for a
\* position before j
FailedBefore(j) ==
    \E i \in DOMAIN recorded : recorded[i].status = "failed" /\ recorded[i].step_index < j

\* C5: after some step has failed, every later step whose dependencies all
\* have status completed has its tool invoked before the run ends
C5_Tolerant ==
    node = "END" =>
        \A j \in 1..Len(state.plan.steps) :
            (/\ FailedBefore(j)
             /\ \A dep \in state.plan.steps[j].dependencies : dep < j
             /\ _check_step_dependencies(state, state.plan.steps[j])) =>
                \E i \in DOMAIN calls : calls[i].step = state.plan.steps[j]

\* C6: when finalize_workflow has run, every step position 1..N of the plan
\* has a terminal StepResult, and the completed and the failed count add up to N
C6_AllTerminalAtFinalize ==
    finalized =>
        /\ \A i \in 1..Len(state.plan.steps) :
              /\ i \in DOMAIN state.step_results
              /\ state.step_results[i].status \in Terminal
        /\ Cardinality(CompletedSteps(state)) + Cardinality(FailedSteps(state))
              = Len(state.plan.steps)

\* C7: no tool is invoked for a plan that plan validation reports an issue for
C7_InvalidPlanNotExecuted == plan_issues # {} => calls = <<>>

\* C10: the run of a new workflow starts with empty step_results, and every
\* result the run ends with for a step of the plan was written by the run
C10_FreshStatePerPlan ==
    /\ node = "start_workflow" => IsEmpty(state.step_results)
    /\ node = "END" =>
          \A k \in 1..Len(state.plan.steps) :
              k \in DOMAIN state.step_results => RecordedFor(k) # {}

\* C11: within one run tools are invoked in strictly ascending step order
C11_AscendingCalls ==
    \A a, b \in DOMAIN calls : a < b => calls[a].step_index < calls[b].step_index

-----------------------------------------------------------------------------
(* Properties of the cursor and the status *)

\* C38: whenever the router sends the run to execute_tools, the step_index of
\* shared_context.current_execution is current_step and that step has no
\* StepResult yet
C38_ExecutesStepAtCursor ==
    node = "execute_tools" =>
        LET current_execution == Get(state.shared_context, "current_execution", EmptyDict) IN
        /\ Get(current_execution, "step_index", 0) = state.current_step
        /\ state.current_step \notin DOMAIN state.step_results

\* C21: no node of a run leaves current_step below the value it had
C21_CursorNeverDecreases ==
    [][(node \in Running) => (state'.current_step >= state.current_step)]_vars

\* the values status is declared to take
StatusValues == {"planning", "executing", "completed", "failed", "interrupted"}

\* C22: the status of a thread a workflow was started on is one of planning,
\* executing, completed, failed and interrupted
C22_StatusInEnum == run >= 1 => state.status \in StatusValues

\* C23: once status is completed or failed no later node of the run changes it
C23_TerminalStatusAbsorbing ==
    [][(node \in Running /\ state.status \in {"completed", "failed"})
          => state'.status = state.status]_vars

-----------------------------------------------------------------------------
(* Properties of what the user is told *)

\* the run is over and phase 4 of process_user_request reads the thread
RunEnded == node = "END"

\* C24: after a run that ended with a failed step, get_final_results returns no
\* error record but the numbers of completed and failed steps and the
\* error_message of every failed step, and the summary reports them
C24_FailuresReported ==
    (RunEnded /\ FailedSteps(state) /= {}) =>
        LET final_results == get_final_results(state)
            summary == _generate_claude_style_summary(final_results)
        IN
        /\ "error" \notin DOMAIN final_results
        /\ final_results.completed_steps = Cardinality(CompletedSteps(state))
        /\ final_results.failed_steps = Cardinality(FailedSteps(state))
        /\ \A i \in FailedSteps(state) :
              final_results.step_summaries[i].error = state.step_results[i].error_message
        /\ summary.kind = "summary"
        /\ summary.issues_encountered > 0

\* C25: right after cancel_workflow of a user has returned, the thread of the
\* user holds no state or a workflow that is not active, whichever the checkpointer
C25_CancelledIsInactive ==
    [][CancelWorkflow =>
          (get_thread_state(state') = None \/ ~is_workflow_active(state'))]_vars

\* an operation of the one user and of the other
UserActed ==
    \/ <<node, supersteps, run>>' # <<node, supersteps, run>>
    \/ "user" \in cancelled' \ cancelled

OtherActed ==
    \/ <<other.node, other.supersteps>>' # <<other.node, other.supersteps>>
    \/ "other" \in cancelled' \ cancelled

\* C26: however the operations of two users interleave, no operation of one
\* user changes the channel values kept for the other, and the run of each user
\* ends with the channel values it ends with when it runs alone
C26_UsersIsolated ==
    [][/\ OtherActed => state' = state
       /\ UserActed => other'.state = other.state
       /\ (node' = "END" /\ node # "END")
            => state' = Uninterrupted(state'.plan, responses').state
       /\ (other'.node = "END" /\ other.node # "END")
            => other'.state = Uninterrupted(other'.state.plan, other'.responses).state]_vars

\* both runs are over, one with a failed step and one with a completed step,
\* and both users have cancelled
C26_Witness ==
    /\ node = "END"
    /\ other.node = "END"
    /\ cancelled = Users
    /\ FailedSteps(state) # {}
    /\ CompletedSteps(other.state) # {}

-----------------------------------------------------------------------------
(* Properties of the outcome of a step *)

\* C31: every StepResult the step executors write has an error_message if and
\* only if its status is failed
C31_ErrorMessageIffFailed ==
    /\ \A k \in 1..Len(recorded) :
          recorded[k].status = "failed" <=> recorded[k].error_message # "none"
    /\ \A i \in DOMAIN state.step_results :
          state.step_results[i].status = "failed"
              <=> state.step_results[i].error_message # "none"

\* the run has written a failed and a completed StepResult
C31_Witness ==
    /\ \E k \in 1..Len(recorded) :
          recorded[k].status = "failed" /\ recorded[k].error_message = "tool_exception"
    /\ \E k \in 1..Len(recorded) :
          recorded[k].status = "completed" /\ recorded[k].error_message = "none"

C27_ToolOutcomeNormalized ==
    [][Invokes =>
        LET i == Invoked.step_index
            outcome == responses[i]
            result == state'.step_results[i]
            failure == outcome = "raise" \/ ToolFailed(outcome)
        IN
        /\ failure => (result.status = "failed" /\ result.error_message # "none")
        /\ result.status = "completed" => ~failure]_vars

\* the planning model named an action no handler is registered for
Unhandled(i) == input.action_names[i] \notin RegisteredActionNames

\* C28: no tool is invoked for a step whose action has no registered handler,
\* and when the run is over the step has a StepResult with status failed and
\* a message
C28_UnhandledActionFails ==
    [][/\ Invokes => ~Unhandled(Invoked.step_index)
       /\ (node' = "END" /\ finalized') =>
            \A i \in 1..Len(state'.plan.steps) :
                Unhandled(i) =>
                    /\ i \in DOMAIN state'.step_results
                    /\ state'.step_results[i].status = "failed"
                    /\ state'.step_results[i].error_message # "none"]_vars

\* execute_step runs with the cursor on a step one of whose dependencies has
\* no result or a failed one
UnmetDependency ==
    /\ node = "execute_step"
    /\ supersteps' = supersteps + 1
    /\ state.current_step \in 1..Len(state.plan.steps)
    /\ ~ _check_step_dependencies(state, state.plan.steps[state.current_step])

\* C29: when the step under the cursor has an unmet dependency, a failed
\* StepResult is recorded for that step, the cursor advances by one, and the
\* iteration invokes no tool: neither execute_step nor the node it is routed to
C29_UnmetDependencyFailsStep ==
    [][UnmetDependency =>
        /\ state.current_step \in DOMAIN state'.step_results
        /\ state'.step_results[state.current_step].status = "failed"
        /\ Len(recorded') = Len(recorded) + 1
        /\ state'.current_step = state.current_step + 1
        /\ calls' = calls
        /\ node' # "execute_tools"]_vars

\* the lines of progress_messages that tell the outcome of step i
OutcomeLines(i) ==
    {k \in 1..Len(state.progress_messages) :
        /\ state.progress_messages[k].step = i
        /\ state.progress_messages[k].line
              \in {"completed", "completed_successfully", "failed"}}

\* C30: when a run has ended, progress_messages holds exactly one outcome line
\* for every step that has a completed or failed StepResult
C30_OneOutcomeLinePerStep ==
    (node = "END" /\ finalized) =>
        \A i \in DOMAIN state.step_results :
            state.step_results[i].status \in Terminal
                => Cardinality(OutcomeLines(i)) = 1

\* C39: in every state of a run started from the initial state, error_count is
\* the number of entries of step_results whose status is failed
C39_ErrorCountIsFailedResults ==
    "error_count" \in DOMAIN state =>
        state.error_count = Cardinality(FailedSteps(state))

\* the places of the stream that hold the outcome line of step i
StreamedOutcome(i) ==
    {k \in 1..Len(output.stream) :
        /\ output.stream[k].step = i
        /\ output.stream[k].line \in {"completed", "completed_successfully", "failed"}}

\* C40: when the run has ended, the stream _execute_streaming_workflow yielded
\* holds, for every step with a completed or failed StepResult, that step's
\* completed or failed line, and these lines come in step order
C40_StreamComplete ==
    (Listening(output) /\ RunEnded) =>
        /\ \A i \in DOMAIN state.step_results :
              state.step_results[i].status \in Terminal =>
                  \E k \in StreamedOutcome(i) :
                      output.stream[k].line = "failed"
                          <=> state.step_results[i].status = "failed"
        /\ \A i, j \in DOMAIN state.step_results :
              \A k \in StreamedOutcome(i) : \A l \in StreamedOutcome(j) :
                  k < l => i <= j

\* C32: read while the checkpoint store fails, the thread of a user does not
\* give what a thread without workflow gives: not as thread state, not as
\* progress, not as final results
C32_StoreErrorDistinct ==
    (output.done /\ output.read = "raises") =>
        /\ output.thread_state # get_thread_state(ChannelDefaults)
        /\ output.progress # get_workflow_progress(ChannelDefaults)
        /\ output.final_results # get_final_results(ChannelDefaults)

-----------------------------------------------------------------------------
(* Properties of the data handed from step to step *)

\* execute_step in state st resolves the parameters of the step under the cursor
Resolving(st) ==
    LET current_step == st.current_step
        current_execution == Get(st.shared_context, "current_execution", EmptyDict)
    IN /\ current_step \in 1..Len(st.plan.steps)
       /\ ~existing_result_completed(st, current_step)
       /\ ~(/\ "step_index" \in DOMAIN current_execution
            /\ current_execution["step_index"] = current_step
            /\ Get(current_execution, "tool_executed", FALSE))
       /\ _check_step_dependencies(st, st.plan.steps[current_step])

\* the results of this run that are completed and have key in their data
Producers(key) ==
    {p \in DOMAIN recorded : /\ recorded[p].status = "completed"
                             /\ key \in DOMAIN recorded[p].extracted_data}

\* the value of key in the last of them
LastProduced(key) ==
    recorded[CHOOSE p \in Producers(key) : \A q \in Producers(key) : q <= p].extracted_data[key]

\* C12: when execute_step resolves the parameters of step j, every step below j
\* that completed in this run has its result in step_results, and what was
\* extracted from its result is in shared_context: a list as part of the list
\* of its key, a scalar unless a step completed later has written the key; the
\* resolved parameters are taken from these values
C12_EarlierDataVisible ==
    (node = "execute_step" /\ supersteps < RecursionLimit /\ Resolving(state)) =>
        LET j == state.current_step
            sc == state.shared_context
            resolved == _resolve_template_variables(state.plan.steps[j].parameters,
                                                    ResolverView(state))
        IN \A p \in DOMAIN recorded :
              (recorded[p].status = "completed" /\ recorded[p].step_index < j) =>
                 LET result == recorded[p]
                     data == result.extracted_data
                 IN /\ result.step_index \in DOMAIN state.step_results
                    /\ state.step_results[result.step_index] = result
                    /\ \A key \in DOMAIN data \ {"tool_output"} :
                          /\ key \in DOMAIN sc
                          /\ IF IsListKey(key)
                             THEN Elements(data[key]) \subseteq Elements(sc[key])
                             ELSE sc[key] = LastProduced(key)
                    /\ "discovered_emails" \in DOMAIN data =>
                          /\ Elements(data["discovered_emails"])
                                \subseteq Elements(sc["discovered_contacts"])
                          /\ resolved["to"].t = "list"
                          /\ Elements(data["contact_list"]) \subseteq Elements(resolved["to"].v)
                    /\ "meeting_link" \in DOMAIN data =>
                          /\ sc["meeting_details"]["meet_link"] = LastProduced("meeting_link")
                          /\ resolved["body"] = Str(<<"Join: ", LastProduced("meeting_link")>>)

\* step 3 is resolved after step 1 found addresses and step 2 a link
C12_Witness ==
    /\ node = "execute_step"
    /\ supersteps < RecursionLimit
    /\ Resolving(state)
    /\ state.current_step = 3
    /\ Len(recorded) = 2
    /\ recorded[1] = StepResult(1, "completed", _extract_step_data("emails_ab"), "none")
    /\ recorded[2] = StepResult(2, "completed", _extract_step_data("emails_b_link_b"), "none")
    /\ state.shared_context["meeting_link"] = "link_b"
    /\ Elements(state.shared_context["contact_list"]) = Contacts

-----------------------------------------------------------------------------
(* Properties of the reducers *)

\* keys whose values are maps, at any depth
MapValued == {"meeting_details", "current_execution", "venue"}

\* new merged into existing, map-valued keys merged at every depth
RECURSIVE DeepMerge(_, _)
DeepMerge(existing, new) ==
    [k \in DOMAIN existing \cup DOMAIN new |->
        IF k \notin DOMAIN new THEN existing[k]
        ELSE IF k \in DOMAIN existing /\ k \in MapValued
          THEN DeepMerge(existing[k], new[k])
        ELSE new[k]]

\* new merged into existing, the keys of new replacing those of existing
ShallowMerge(existing, new) ==
    [k \in DOMAIN existing \cup DOMAIN new |->
        IF k \in DOMAIN new THEN new[k] ELSE existing[k]]

\* merged is existing with new merged in: scalars overwritten, lists on both
\* sides united without duplicates, maps on both sides merged by MergeMaps
MergedByType(existing, new, merged, deep) ==
    /\ DOMAIN merged = DOMAIN existing \cup DOMAIN new
    /\ \A k \in DOMAIN existing \ DOMAIN new : merged[k] = existing[k]
    /\ \A k \in DOMAIN new :
          IF k \in DOMAIN existing /\ IsListKey(k)
            THEN /\ Elements(merged[k]) = Elements(existing[k]) \cup Elements(new[k])
                 /\ NoDuplicates(merged[k])
          ELSE IF k \in DOMAIN existing /\ k \in MapValued
            THEN merged[k] = IF deep THEN DeepMerge(existing[k], new[k])
                             ELSE ShallowMerge(existing[k], new[k])
          ELSE merged[k] = new[k]

MergeContextReturned == output.done /\ input.fn = "merge_context"

\* C18: merge_context overwrites a scalar key, replaces a list on both sides by
\* the duplicate-free union, and merges a map on both sides one level deep: an
\* entry of the new map replaces the entry of the existing map, a map inside
\* it included
C18_MergeOneLevel ==
    MergeContextReturned =>
        MergedByType(input.existing, input.new, output.value, FALSE)

\* C18 as stated: a map on both sides is merged at every nesting depth
C18_MergeEveryDepth ==
    MergeContextReturned =>
        MergedByType(input.existing, input.new, output.value, TRUE)

\* a list and a map with a map inside on both sides
C18_Witness ==
    /\ MergeContextReturned
    /\ input.existing = [discovered_contacts |-> <<"a@x.com", "b@x.com">>,
                         meeting_details |-> [venue |-> [room |-> "r1"]]]
    /\ input.new = [discovered_contacts |-> <<"b@x.com", "b@x.com">>,
                    meeting_details |-> [venue |-> [floor |-> "f2"]]]
    /\ output.value.meeting_details = [venue |-> [floor |-> "f2"]]
    /\ Elements(output.value.discovered_contacts) = Contacts

MergedTwice == output.done /\ input.fn = "merge_context_twice"

\* C19: two updates on disjoint scalar keys merged in either order give the
\* same context; a list key of both updates ends as the duplicate-free union
\* of the lists in either order
C19_OrderIndependent ==
    MergedTwice =>
        LET a == input.a
            b == input.b
            ab == output.value.ab
            ba == output.value.ba
        IN /\ (/\ DOMAIN a \cap DOMAIN b = {}
               /\ \A k \in DOMAIN a \cup DOMAIN b : ~IsListKey(k) /\ k \notin MapValued)
                  => ab = ba
           /\ \A k \in DOMAIN a \cap DOMAIN b :
                 IsListKey(k) =>
                    /\ Elements(ab[k]) = Elements(Get(input.base, k, <<>>))
                                            \cup Elements(a[k]) \cup Elements(b[k])
                    /\ Elements(ba[k]) = Elements(ab[k])
                    /\ NoDuplicates(ab[k])
                    /\ NoDuplicates(ba[k])

\* the updates write different scalar keys and the same list key
C19_Witness ==
    /\ MergedTwice
    /\ input.a = [meeting_link |-> "link_a", discovered_contacts |-> <<"a@x.com", "a@x.com">>]
    /\ input.b = [event_id |-> "e1", discovered_contacts |-> <<"b@x.com">>]
    /\ Elements(output.value.ab.discovered_contacts) = Contacts
    /\ output.value.ab.meeting_link = "link_a"
    /\ output.value.ba.event_id = "e1"

UpdateApplied == output.done /\ input.fn = "update_step_completion"

\* two contexts with the same keys, the same scalars and maps, and lists of
\* the same elements
SameContext(c, d) ==
    /\ DOMAIN c = DOMAIN d
    /\ \A k \in DOMAIN c :
          IF IsListKey(k) THEN Elements(c[k]) = Elements(d[k]) ELSE c[k] = d[k]

\* C20: a step-completion update applied a second time leaves step_results and
\* current_step as they are and shared_context with the same keys, values and
\* list elements; progress_messages gets the message of the update once more
\* and error_count its error once more
C20_SecondApplication ==
    UpdateApplied =>
        LET update == output.value.update
            once == output.value.once
            twice == output.value.twice
        IN /\ twice.step_results = once.step_results
           /\ twice.current_step = once.current_step
           /\ SameContext(twice.shared_context, once.shared_context)
           /\ twice.progress_messages = once.progress_messages \o update.progress_messages
           /\ Len(twice.progress_messages) = Len(once.progress_messages) + 1
           /\ twice.error_count = once.error_count + Get(update, "error_count", 0)
           /\ \A f \in DOMAIN once \ {"step_results", "current_step", "shared_context",
                                     "progress_messages", "error_count"} :
                 twice[f] = once[f]

\* C20 as stated: the second application changes none of the fields
C20_Idempotent ==
    UpdateApplied =>
        \A f \in {"step_results", "shared_context", "progress_messages",
                  "error_count", "current_step"} :
            output.value.twice[f] = output.value.once[f]

\* the update of a failed step, with its error and its message, applied twice
C20_Witness ==
    /\ UpdateApplied
    /\ input.step_result.status = "failed"
    /\ output.value.update.error_count = 1
    /\ output.value.once.error_count = input.state.error_count + 1
    /\ output.value.twice.error_count = input.state.error_count + 2
    /\ Len(output.value.twice.progress_messages) = 2

-----------------------------------------------------------------------------
(* Properties of template resolution *)

ResolveReturned == output.done /\ input.fn = "_resolve_template_variables"

Brace(piece) == piece \in {"{{", "}}"}

\* the pieces at the head of text that are no braces
RECURSIVE NameLength(_)
NameLength(text) ==
    IF text = <<>> \/ Brace(Head(text)) THEN 0 ELSE 1 + NameLength(Tail(text))

\* text begins with a placeholder "{{name}}"
PlaceholderAtHead(text) ==
    /\ Len(text) >= 3
    /\ Head(text) = "{{"
    /\ NameLength(Tail(text)) >= 1
    /\ NameLength(Tail(text)) + 2 <= Len(text)
    /\ text[NameLength(Tail(text)) + 2] = "}}"

\* value is exactly "{{name}}"
IsPlaceholder(value) ==
    /\ value.t = "str"
    /\ PlaceholderAtHead(value.v)
    /\ NameLength(Tail(value.v)) + 2 = Len(value.v)

PlaceholderName(text) == SubSeq(text, 2, NameLength(Tail(text)) + 1)

\* C13: a parameter that is exactly "{{name}}" is replaced by the looked-up
\* value itself, of the type it has, and is left as it is when the name has no
\* value
C13_PlaceholderNative ==
    ResolveReturned =>
        \A key \in DOMAIN input.parameters :
            LET value == input.parameters[key]
            IN IsPlaceholder(value) =>
                  LET found == _lookup_variable(PlaceholderName(value.v), input.state)
                  IN output.value[key] = IF found # None THEN found ELSE value

\* "{{contact_list}}" resolved to the list of step 1, "{{missing}}" kept
C13_Witness ==
    /\ ResolveReturned
    /\ DOMAIN input.parameters = {"to", "title", "attendees"}
    /\ input.parameters.to = Str(Template("contact_list"))
    /\ "contact_list" \notin DOMAIN input.state.shared_context
    /\ output.value.to = List(<<"a@x.com">>)
    /\ output.value.attendees = List(<<"a@x.com">>)

\* some piece of text is the head of a placeholder
RECURSIVE HasPlaceholder(_)
HasPlaceholder(text) ==
    /\ text # <<>>
    /\ PlaceholderAtHead(text) \/ HasPlaceholder(Tail(text))

\* text with every placeholder whose name has a value replaced by the string
\* form of the value, the other placeholders as they are
RECURSIVE Substituted(_, _)
Substituted(text, st) ==
    IF text = <<>> THEN <<>>
    ELSE IF PlaceholderAtHead(text)
      THEN LET name == PlaceholderName(text)
               found == IF name = <<"user_id">> THEN Str(<<st.user_id>>)
                        ELSE _lookup_variable(name, st)
               rest == SubSeq(text, Len(name) + 3, Len(text))
           IN (IF found # None THEN str(found) ELSE <<"{{">> \o name \o <<"}}">>)
                  \o Substituted(rest, st)
    ELSE <<Head(text)>> \o Substituted(Tail(text), st)

\* C14: a string parameter with placeholders inside a longer string, wherever
\* they stand, has each placeholder whose name resolves replaced by the string
\* form of its value and the other placeholders left as they are
C14_PlaceholdersSubstituted ==
    ResolveReturned =>
        \A key \in DOMAIN input.parameters :
            LET value == input.parameters[key]
            IN (value.t = "str" /\ HasPlaceholder(value.v) /\ ~IsPlaceholder(value))
                  => output.value[key] = Str(Substituted(value.v, input.state))

\* the same for the strings that do not both begin with "{{" and end with "}}"
PlaceholdersInsideSubstituted ==
    ResolveReturned =>
        \A key \in DOMAIN input.parameters :
            LET value == input.parameters[key]
            IN (/\ value.t = "str"
                /\ HasPlaceholder(value.v)
                /\ ~(StartsWith(value.v, <<"{{">>) /\ EndsWith(value.v, <<"}}">>)))
                  => output.value[key] = Str(Substituted(value.v, input.state))

LookupReturned == output.done /\ input.fn = "_lookup_variable"

Suffix(piece) == piece \in {"_list", "_emails"}

NoSuffix(piece) == ~Suffix(piece)

\* C15: _lookup_variable returns the shared_context entry of the name; else the
\* value of the name in the extracted_data of the lowest step result that has
\* it; else, for a name ending in _list or _emails, a list of shared_context
\* whose key contains the base term; else nothing
C15_LookupOrder ==
    LookupReturned =>
        LET st == input.state
            name == input.var_name
            sc == st.shared_context
            has(data) == \E k \in DOMAIN data : Spell(k) = name
            holders == {i \in DOMAIN st.step_results : has(st.step_results[i].extracted_data)}
            lists == {k \in DOMAIN sc : /\ sc[k].t = "list"
                                        /\ Contains(Spell(k), SelectSeq(name, NoSuffix))}
        IN IF \E k \in DOMAIN sc : Spell(k) = name
           THEN \E k \in DOMAIN sc : Spell(k) = name /\ output.value = sc[k]
           ELSE IF holders # {}
           THEN \E i \in holders :
                   /\ \A j \in holders : i <= j
                   /\ \E k \in DOMAIN st.step_results[i].extracted_data :
                         /\ Spell(k) = name
                         /\ output.value = st.step_results[i].extracted_data[k]
           ELSE IF name # <<>> /\ Suffix(name[Len(name)]) /\ lists # {}
           THEN \E k \in lists : output.value = sc[k]
           ELSE output.value = None

\* two step results have the name, shared_context has it not
C15_Witness ==
    /\ LookupReturned
    /\ input.var_name = Spell("contact_list")
    /\ "contact_list" \notin DOMAIN input.state.shared_context
    /\ "discovered_contacts" \in DOMAIN input.state.shared_context
    /\ DOMAIN input.state.step_results = {1, 2}
    /\ "contact_list" \in DOMAIN input.state.step_results[2].extracted_data
    /\ input.state.step_results[2].extracted_data.contact_list = List(<<"b@x.com">>)
    /\ output.value = List(<<"a@x.com">>)

\* C16: the parameters handed to a tool have the user_id of the owner of the
\* workflow state, whatever the parameters of the plan are
C16_OwnUserId ==
    ResolveReturned => output.value.user_id = Str(<<input.state.user_id>>)

DefaultsReturned == output.done /\ input.fn = "_add_smart_defaults"

\* C17: _add_smart_defaults leaves every parameter it is given as it is and
\* adds no other keys than subject, body, timezone and include_meet
C17_DefaultsOnlyAdded ==
    DefaultsReturned =>
        /\ \A key \in DOMAIN input.params :
              key \in DOMAIN output.value /\ output.value[key] = input.params[key]
        /\ DOMAIN output.value \ DOMAIN input.params
              \subseteq {"subject", "body", "timezone", "include_meet"}

\* a subject and include_meet that are given, a body and a timezone that are not
C17_Witness ==
    /\ DefaultsReturned
    /\ DOMAIN input.params = {"to", "subject", "title", "attendees", "include_meet"}
    /\ input.params.subject = Str(<<"Hello">>)
    /\ input.params.include_meet = Bool(FALSE)
    /\ output.value.subject = Str(<<"Hello">>)
    /\ output.value.include_meet = Bool(FALSE)
    /\ output.value.body = Str(<<"Please see the details below.">>)
    /\ output.value.timezone = Str(<<"UTC">>)

-----------------------------------------------------------------------------
(* Properties of validate_workflow_plan *)

\* indices reached from the indices of frontier along dependency edges
RECURSIVE ReachedFrom(_, _, _)
ReachedFrom(plan, frontier, seen) ==
    LET next == UNION {StepWithIndex(plan, idx).dependencies :
                          idx \in {f \in frontier : ~IsEmpty(StepWithIndex(plan, f))}}
    IN IF next \subseteq seen THEN seen
       ELSE ReachedFrom(plan, next \ seen, seen \cup next)

StepIndices(plan) == {plan.steps[k].step_index : k \in 1..Len(plan.steps)}

\* every dependency of every step is an index of the plan below the step's own
LowerDependencies(plan) ==
    \A k \in 1..Len(plan.steps) :
        \A dep \in plan.steps[k].dependencies :
            dep \in StepIndices(plan) /\ dep < plan.steps[k].step_index

\* the dependency edges of the plan contain a cycle
HasCycle(plan) ==
    \E i \in 1..Len(plan.steps) :
        plan.steps[i].step_index \in ReachedFrom(plan, {plan.steps[i].step_index}, {})

\* C8: validate_workflow_plan returns, and for a plan whose dependency edges
\* contain a cycle it returns at least one issue, one of them the circular
\* dependency
C8_CycleReported ==
    (validated /\ HasCycle(vplan)) =>
        /\ vissues # {}
        /\ \E issue \in vissues : issue.kind = "circular"

\* step 2 depends on 3 and step 3 depends on 2
C8_Witness ==
    /\ validated
    /\ Len(vplan.steps) = 3
    /\ vplan.steps[1] = ExecutionStep(1, {})
    /\ vplan.steps[2] = ExecutionStep(2, {3})
    /\ vplan.steps[3] = ExecutionStep(3, {2})
    /\ Issue("circular", 2, 0) \in vissues

\* C36: for a plan whose step indices are exactly 1..N and whose every
\* dependency is an existing index below its step's own, validate_workflow_plan
\* returns no issue about indices, dependencies or cycles, also when a step is
\* reached along two dependency paths
C36_NoFalsePositive ==
    (/\ validated
     /\ Len(vplan.steps) > 0
     /\ StepIndices(vplan) = 1..Len(vplan.steps)
     /\ LowerDependencies(vplan)) => vissues = {}

\* step 3 depends on 1 and 2, step 2 depends on 1: step 1 is reached twice
C36_Witness ==
    /\ validated
    /\ Len(vplan.steps) = 3
    /\ vplan.steps[1] = ExecutionStep(1, {})
    /\ vplan.steps[2] = ExecutionStep(2, {1})
    /\ vplan.steps[3] = ExecutionStep(3, {1, 2})
    /\ vissues = {}

-----------------------------------------------------------------------------
(* Properties of _check_step_dependencies *)

CheckReturned == output.done /\ input.fn = "_check_step_dependencies"

\* the dependency has a StepResult with status completed
Met(st, dep) ==
    dep \in DOMAIN st.step_results /\ st.step_results[dep].status = "completed"

\* the entries of the missing list that stand for the dependency
EntriesFor(missing, dep) == {k \in DOMAIN missing : missing[k].dep_step = dep}

\* C35: _check_step_dependencies returns satisfied exactly when every
\* dependency of the step has a completed result, and when it does not, its
\* missing list holds one entry for each dependency without a completed
\* result and none for a dependency that has one
C35_MissingListsUnmet ==
    CheckReturned =>
        LET deps == input.step.dependencies
            result == output.value
        IN /\ result.satisfied <=> \A dep \in deps : Met(input.state, dep)
           /\ \A dep \in deps :
                 Cardinality(EntriesFor(result.missing, dep)) =
                     IF Met(input.state, dep) THEN 0 ELSE 1
           /\ \A k \in DOMAIN result.missing : result.missing[k].dep_step \in deps

\* step 1 completed, step 2 failed, step 3 without a result
C35_Witness ==
    /\ CheckReturned
    /\ input.step.dependencies = {1, 2, 3}
    /\ DOMAIN input.state.step_results = {1, 2}
    /\ input.state.step_results[1].status = "completed"
    /\ input.state.step_results[2].status = "failed"
    /\ output.value = [satisfied |-> FALSE,
                       missing |-> <<MissingEntry(2, TRUE), MissingEntry(3, FALSE)>>]

-----------------------------------------------------------------------------
(* Properties of analyze_workflow_dependencies *)

\* the analysis has returned its levels
Analysed == output.done /\ "step_levels" \in DOMAIN output

\* C34: when every dependency of the plan is an existing lower index, the
\* levels analyze_workflow_dependencies returns give every step a level above
\* the level of each of its dependencies, and no level holds two steps of
\* which one depends, directly or through other steps, on the other
C34_LevelsRespectDependencies ==
    (Analysed /\ LowerDependencies(vplan)) =>
        /\ \A k \in 1..Len(vplan.steps) :
              \A dep \in vplan.steps[k].dependencies :
                  output.step_levels[vplan.steps[k].step_index] > output.step_levels[dep]
        /\ \A level \in DOMAIN output.level_groups :
              \A a, b \in output.level_groups[level] :
                  b \notin ReachedFrom(vplan, {a}, {})

\* C37: analyze_workflow_dependencies returns on every plan: the loop that
\* builds the dependency chains makes finitely many passes
C37_AnalysisTerminates == <>(output.done)

-----------------------------------------------------------------------------
(* Properties of the interrupted and resumed run *)

\* C9: the interrupted and resumed run ends with the current_step,
\* step_results and shared_context of the uninterrupted run on the same plan
\* and tool responses, and invokes no tool of a step that had completed before
\* the interruption
C9_ResumeEquivalent ==
    (node = "END" /\ at_break.resumed) =>
        LET u == Uninterrupted(state.plan, responses) IN
        /\ raised = u.raised
        /\ state.current_step = u.state.current_step
        /\ state.step_results = u.state.step_results
        /\ state.shared_context = u.state.shared_context
        /\ \A i \in DOMAIN calls : calls[i].step_index \notin at_break.completed

====
